---- MODULE Spec2Model ----
(***************************************************************************)
(* Request lifecycle engine of proxmox-agent: validator, policy engine,    *)
(* canonical hasher, idempotency store, backend adapter, action runner,    *)
(* HTTP front-end and audit log.  Text values are TLA+ strings; TLC        *)
(* evaluates Len, SubSeq and \o on them, so the string processing of the   *)
(* code (TrimSpace, regular expressions, Split, HasPrefix) is computed     *)
(* character by character.                                                 *)
(***************************************************************************)
EXTENDS Integers, Sequences, FiniteSets, TLC

(***************************************************************************)
(* Bounds of the model.                                                    *)
(***************************************************************************)
\* number of HTTP requests (one handler goroutine each) in a behaviour
NumHandlers == 2

\* number of calls of the runner, one after another, in a behaviour
NumCalls == 3

Handlers == 1..NumHandlers

(***************************************************************************)
(* Strings.                                                                *)
(***************************************************************************)
Ch(s, i) == SubSeq(s, i, i)

Digits == {"0", "1", "2", "3", "4", "5", "6", "7", "8", "9"}

LowerLetters == "abcdefghijklmnopqrstuvwxyz"

UpperLetters == "ABCDEFGHIJKLMNOPQRSTUVWXYZ"

Letters == {Ch(LowerLetters, i) : i \in 1..26} \cup {Ch(UpperLetters, i) : i \in 1..26}

AlNum == Letters \cup Digits

\* unicode.IsSpace restricted to the characters the inputs use
Whitespace == {" ", "\t", "\n"}

RECURSIVE TrimLeft(_)
TrimLeft(s) ==
    IF Len(s) > 0 /\ Ch(s, 1) \in Whitespace THEN TrimLeft(SubSeq(s, 2, Len(s))) ELSE s

RECURSIVE TrimRight(_)
TrimRight(s) ==
    IF Len(s) > 0 /\ Ch(s, Len(s)) \in Whitespace THEN TrimRight(SubSeq(s, 1, Len(s) - 1)) ELSE s

TrimSpace(s) == TrimRight(TrimLeft(s))

HasPrefix(s, p) == Len(s) >= Len(p) /\ SubSeq(s, 1, Len(p)) = p

TrimPrefix(s, p) == IF HasPrefix(s, p) THEN SubSeq(s, Len(p) + 1, Len(s)) ELSE s

AllIn(s, class) == \A i \in 1..Len(s) : Ch(s, i) \in class

ToUpperCh(c) ==
    IF \E i \in 1..26 : Ch(LowerLetters, i) = c
    THEN Ch(UpperLetters, CHOOSE i \in 1..26 : Ch(LowerLetters, i) = c)
    ELSE c

RECURSIVE ToUpper(_)
ToUpper(s) == IF Len(s) = 0 THEN "" ELSE ToUpperCh(Ch(s, 1)) \o ToUpper(SubSeq(s, 2, Len(s)))

Quote(s) == "\"" \o s \o "\""

(***************************************************************************)
(* Canonical model: the action vocabulary and the request.                 *)
(***************************************************************************)
ActionReadVM == "read_vm"
ActionReadInventory == "read_inventory"
ActionReadTaskStatus == "read_task_status"
ActionReadTasks == "read_tasks"
ActionStartVM == "start_vm"
ActionStopVM == "stop_vm"
ActionSnapshotVM == "snapshot_vm"
ActionCloneVM == "clone_vm"
ActionMigrateVM == "migrate_vm"
ActionDeleteVM == "delete_vm"
ActionStorageEdit == "storage_edit"
ActionFirewallEdit == "firewall_edit"

\* the action set of the request validator
ValidatorActions ==
    { ActionReadVM, ActionReadInventory, ActionReadTaskStatus, ActionReadTasks,
      ActionStartVM, ActionStopVM, ActionSnapshotVM, ActionCloneVM,
      ActionMigrateVM, ActionDeleteVM, ActionStorageEdit, ActionFirewallEdit }

\* params: a Go map[string]any; isNil is the nil map, kv maps keys to typed values
NilParams == [isNil |-> TRUE, kv |-> [k \in {} |-> [t |-> "null", v |-> ""]]]

StrVal(s) == [t |-> "string", v |-> s]

BoolVal(b) == [t |-> "bool", v |-> IF b THEN "true" ELSE "false"]

MapParams(kv) == [isNil |-> FALSE, kv |-> kv]

ActionRequest(environment, action, target, params, dryRun, approvedBy, approvalTicket, reason, expiresAt, actor) ==
    [ Environment |-> environment, Action |-> action, Target |-> target,
      Params |-> params, DryRun |-> dryRun, ApprovedBy |-> approvedBy,
      ApprovalTicket |-> approvalTicket, Reason |-> reason, ExpiresAt |-> expiresAt,
      Actor |-> actor ]

ZeroRequest == ActionRequest("", "", "", NilParams, FALSE, "", "", "", "", "")

\* the configured environments (config.Config.Environments)
ConfiguredEnvironments == {"home", "cloud"}

(***************************************************************************)
(* Validator.                                                              *)
(***************************************************************************)
\* ^vm/[0-9]+$
vmTargetPattern(t) ==
    HasPrefix(t, "vm/") /\ Len(t) > 3 /\ AllIn(SubSeq(t, 4, Len(t)), Digits)

\* ^inventory/(all|running)$
inventoryTargetPattern(t) == t \in {"inventory/all", "inventory/running"}

\* ^task/status$
taskStatusTargetPattern(t) == t = "task/status"

\* ^task/list$
taskListTargetPattern(t) == t = "task/list"

\* ^storage/[A-Za-z0-9._:-]+$
storageTargetPattern(t) ==
    HasPrefix(t, "storage/") /\ Len(t) > 8
        /\ AllIn(SubSeq(t, 9, Len(t)), AlNum \cup {".", "_", ":", "-"})

\* ^firewall/(cluster|node/[A-Za-z0-9._-]+|vm/[0-9]+)$
firewallTargetPattern(t) ==
    /\ HasPrefix(t, "firewall/")
    /\ LET rest == SubSeq(t, 10, Len(t))
       IN \/ rest = "cluster"
          \/ HasPrefix(rest, "node/") /\ Len(rest) > 5
                /\ AllIn(SubSeq(rest, 6, Len(rest)), AlNum \cup {".", "_", "-"})
          \/ vmTargetPattern(rest)

\* ^[A-Za-z0-9._:@/\-]{3,128}$
approvedByPattern(s) ==
    Len(s) >= 3 /\ Len(s) <= 128 /\ AllIn(s, AlNum \cup {".", "_", ":", "@", "/", "-"})

\* ^[A-Za-z0-9._:\-]{3,128}$
approvalTicketPattern(s) ==
    Len(s) >= 3 /\ Len(s) <= 128 /\ AllIn(s, AlNum \cup {".", "_", ":", "-"})

DigitValue(c) == CHOOSE n \in 0..9 : Ch("0123456789", n + 1) = c

TwoDigits(s, i) == 10 * DigitValue(Ch(s, i)) + DigitValue(Ch(s, i + 1))

\* time.Parse(time.RFC3339, s) succeeds; the UTC form 2006-01-02T15:04:05Z
\* (numeric zone offsets and fractional seconds are not among the inputs)
ParsesRFC3339(s) ==
    /\ Len(s) = 20
    /\ AllIn(SubSeq(s, 1, 4), Digits) /\ Ch(s, 5) = "-"
    /\ AllIn(SubSeq(s, 6, 7), Digits) /\ Ch(s, 8) = "-"
    /\ AllIn(SubSeq(s, 9, 10), Digits) /\ Ch(s, 11) = "T"
    /\ AllIn(SubSeq(s, 12, 13), Digits) /\ Ch(s, 14) = ":"
    /\ AllIn(SubSeq(s, 15, 16), Digits) /\ Ch(s, 17) = ":"
    /\ AllIn(SubSeq(s, 18, 19), Digits) /\ Ch(s, 20) = "Z"
    /\ TwoDigits(s, 6) \in 1..12 /\ TwoDigits(s, 9) \in 1..31
    /\ TwoDigits(s, 12) < 24 /\ TwoDigits(s, 15) < 60 /\ TwoDigits(s, 18) < 60

validateTargetForgetsClone(action, target) ==
    CASE action = ActionReadTasks ->
            IF ~taskListTargetPattern(target)
            THEN "invalid target for " \o Quote(action) \o ": expected task/list" ELSE ""
      [] action = ActionReadTaskStatus ->
            IF ~taskStatusTargetPattern(target)
            THEN "invalid target for " \o Quote(action) \o ": expected task/status" ELSE ""
      [] action = ActionReadInventory ->
            IF ~inventoryTargetPattern(target)
            THEN "invalid target for " \o Quote(action) \o ": expected inventory/all or inventory/running"
            ELSE ""
      [] action \in { ActionReadVM, ActionStartVM, ActionStopVM, ActionSnapshotVM,
                      ActionMigrateVM, ActionDeleteVM } ->
            IF ~vmTargetPattern(target)
            THEN "invalid target for " \o Quote(action) \o ": expected vm/<id>" ELSE ""
      [] action = ActionStorageEdit ->
            IF ~storageTargetPattern(target)
            THEN "invalid target for " \o Quote(action) \o ": expected storage/<name>" ELSE ""
      [] action = ActionFirewallEdit ->
            IF ~firewallTargetPattern(target)
            THEN "invalid target for " \o Quote(action)
                    \o ": expected firewall/cluster, firewall/node/<name>, or firewall/vm/<id>"
            ELSE ""
      [] OTHER -> ""

\* the error of validateTargetByAction, "" for nil
validateTargetByAction(action, target) ==
    CASE action = ActionReadTasks ->
            IF ~taskListTargetPattern(target)
            THEN "invalid target for " \o Quote(action) \o ": expected task/list" ELSE ""
      [] action = ActionReadTaskStatus ->
            IF ~taskStatusTargetPattern(target)
            THEN "invalid target for " \o Quote(action) \o ": expected task/status" ELSE ""
      [] action = ActionReadInventory ->
            IF ~inventoryTargetPattern(target)
            THEN "invalid target for " \o Quote(action) \o ": expected inventory/all or inventory/running"
            ELSE ""
      [] action \in { ActionReadVM, ActionStartVM, ActionStopVM, ActionSnapshotVM,
                      ActionCloneVM, ActionMigrateVM, ActionDeleteVM } ->
            IF ~vmTargetPattern(target)
            THEN "invalid target for " \o Quote(action) \o ": expected vm/<id>" ELSE ""
      [] action = ActionStorageEdit ->
            IF ~storageTargetPattern(target)
            THEN "invalid target for " \o Quote(action) \o ": expected storage/<name>" ELSE ""
      [] action = ActionFirewallEdit ->
            IF ~firewallTargetPattern(target)
            THEN "invalid target for " \o Quote(action)
                    \o ": expected firewall/cluster, firewall/node/<name>, or firewall/vm/<id>"
            ELSE ""
      [] OTHER -> ""

validateApprovalFormatsOnly(req) ==
    LET approvedBy == TrimSpace(req.ApprovedBy)
        approvalTicket == TrimSpace(req.ApprovalTicket)
        reason == TrimSpace(req.Reason)
        expiresAt == TrimSpace(req.ExpiresAt)
    IN IF approvedBy # "" /\ ~approvedByPattern(approvedBy)
         THEN "invalid approved_by format"
       ELSE IF approvalTicket # "" /\ ~approvalTicketPattern(approvalTicket)
         THEN "invalid approval_ticket format"
       ELSE IF reason # "" /\ Len(reason) < 8
         THEN "reason must be at least 8 characters when provided"
       ELSE IF expiresAt # "" /\ ~ParsesRFC3339(expiresAt)
         THEN "expires_at must be RFC3339 format"
       ELSE ""

\* the error of validateApprovalMetadata, "" for nil
validateApprovalMetadata(req) ==
    LET approvedBy == TrimSpace(req.ApprovedBy)
        approvalTicket == TrimSpace(req.ApprovalTicket)
        reason == TrimSpace(req.Reason)
        expiresAt == TrimSpace(req.ExpiresAt)
    IN IF approvedBy # "" /\ ~approvedByPattern(approvedBy)
         THEN "invalid approved_by format"
       ELSE IF approvalTicket # "" /\ ~approvalTicketPattern(approvalTicket)
         THEN "invalid approval_ticket format"
       ELSE IF reason # "" /\ Len(reason) < 8
         THEN "reason must be at least 8 characters when provided"
       ELSE IF expiresAt # "" /\ ~ParsesRFC3339(expiresAt)
         THEN "expires_at must be RFC3339 format"
       ELSE IF approvedBy = "" /\ (approvalTicket # "" \/ reason # "" \/ expiresAt # "")
         THEN "approved_by is required when approval metadata is provided"
       ELSE ""

\* the error of requestValidator.ValidateActionRequest, "" for nil
ValidateActionRequest(req) ==
    IF TrimSpace(req.Environment) = "" THEN "environment is required"
    ELSE IF req.Environment \notin ConfiguredEnvironments
      THEN "unknown environment " \o Quote(req.Environment)
    ELSE IF TrimSpace(req.Action) = "" THEN "action is required"
    ELSE IF req.Action \notin ValidatorActions
      THEN "unsupported action " \o Quote(req.Action)
    ELSE IF TrimSpace(req.Target) = "" THEN "target is required"
    ELSE LET targetErr == validateTargetByAction(req.Action, req.Target)
         IN IF targetErr # "" THEN targetErr ELSE validateApprovalMetadata(req)

(***************************************************************************)
(* Policy engine.                                                          *)
(***************************************************************************)
Decision(allowed, riskLevel, requiresApproval, reason) ==
    [ Allowed |-> allowed, RiskLevel |-> riskLevel,
      RequiresApproval |-> requiresApproval, Reason |-> reason ]

ZeroDecision == Decision(FALSE, "", FALSE, "")

\* the risk switch of Engine.evaluate: <<risk, requiresApproval, reason>>
riskOf(action) ==
    CASE action \in {ActionDeleteVM, ActionMigrateVM, ActionStorageEdit, ActionFirewallEdit} ->
            <<"high", TRUE, "high-impact operation">>
      [] action = ActionStopVM -> <<"medium", TRUE, "service-impacting operation">>
      [] action \in {ActionStartVM, ActionSnapshotVM} ->
            <<"medium", FALSE, "state-changing operation">>
      [] OTHER -> <<"low", FALSE, "read/safe operation">>

\* Engine.evaluate: [err, decision]
evaluateAlwaysEnforces(req, enforceApproval) ==
    LET r == riskOf(req.Action)
    IN IF r[2] /\ req.ApprovedBy = ""
       THEN [ err |-> "",
              decision |-> Decision(FALSE, r[1], TRUE, "approval required before apply") ]
       ELSE IF req.Environment = "" \/ req.Target = ""
       THEN [ err |-> "environment and target are required", decision |-> ZeroDecision ]
       ELSE [ err |-> "", decision |-> Decision(TRUE, r[1], r[2], r[3]) ]

evaluateNeverEnforces(req, enforceApproval) ==
    LET r == riskOf(req.Action)
    IN IF req.Environment = "" \/ req.Target = ""
       THEN [ err |-> "environment and target are required", decision |-> ZeroDecision ]
       ELSE [ err |-> "", decision |-> Decision(TRUE, r[1], r[2], r[3]) ]

evaluateChecksTicket(req, enforceApproval) ==
    LET r == riskOf(req.Action)
    IN IF r[2] /\ enforceApproval /\ (req.ApprovedBy = "" \/ req.ApprovalTicket = "")
       THEN [ err |-> "",
              decision |-> Decision(FALSE, r[1], TRUE, "approval required before apply") ]
       ELSE IF req.Environment = "" \/ req.Target = ""
       THEN [ err |-> "environment and target are required", decision |-> ZeroDecision ]
       ELSE [ err |-> "", decision |-> Decision(TRUE, r[1], r[2], r[3]) ]

evaluate(req, enforceApproval) ==
    LET risk == riskOf(req.Action)[1]
        requiresApproval == riskOf(req.Action)[2]
        reason == riskOf(req.Action)[3]
    IN IF requiresApproval /\ enforceApproval /\ req.ApprovedBy = ""
       THEN [ err |-> "",
              decision |-> Decision(FALSE, risk, TRUE, "approval required before apply") ]
       ELSE IF req.Environment = "" \/ req.Target = ""
       THEN [ err |-> "environment and target are required", decision |-> ZeroDecision ]
       ELSE [ err |-> "", decision |-> Decision(TRUE, risk, requiresApproval, reason) ]

EvaluateForPlan(req) == evaluate(req, FALSE)

EvaluateForApply(req) == evaluate(req, TRUE)

(***************************************************************************)
(* Canonical hasher.  SHA-256 is taken to be collision free: the hash is   *)
(* modelled by the JSON text that is hashed, as json.Marshal writes it: the *)
(* nine hashed fields in the order of the struct, the keys of every map    *)
(* sorted, params omitted when the map is nil or empty and the approval    *)
(* fields when empty (omitempty); Actor is not part of it.                 *)
(***************************************************************************)
\* a < b in the byte order of strings, by which encoding/json sorts map keys
RECURSIVE KeyLess(_, _)
KeyLess(a, b) ==
    LET \* the bytes that may occur in a key, in byte order
        bytes == "-.0123456789:ABCDEFGHIJKLMNOPQRSTUVWXYZ_abcdefghijklmnopqrstuvwxyz"
        rank(c) == CHOOSE i \in 1..Len(bytes) : Ch(bytes, i) = c
    IN IF a = "" THEN b # ""
       ELSE IF b = "" THEN FALSE
       ELSE IF Ch(a, 1) = Ch(b, 1) THEN KeyLess(SubSeq(a, 2, Len(a)), SubSeq(b, 2, Len(b)))
       ELSE rank(Ch(a, 1)) < rank(Ch(b, 1))

RECURSIVE SortedKeys(_)
SortedKeys(keys) ==
    IF keys = {} THEN << >>
    ELSE LET first == CHOOSE k \in keys : \A o \in keys \ {k} : KeyLess(k, o)
         IN << first >> \o SortedKeys(keys \ {first})

RECURSIVE marshalValue(_)
RECURSIVE marshalMembers(_, _)
\* json.Marshal of a map[string]any: the members in the order of their keys
marshalMap(kv) == "{" \o marshalMembers(kv, SortedKeys(DOMAIN kv)) \o "}"

marshalMembers(kv, keys) ==
    IF keys = << >> THEN ""
    ELSE Quote(keys[1]) \o ":" \o marshalValue(kv[keys[1]])
            \o (IF Len(keys) > 1 THEN "," ELSE "")
            \o marshalMembers(kv, SubSeq(keys, 2, Len(keys)))

\* json.Marshal of a value held in a map[string]any
marshalValue(val) ==
    CASE val.t = "string" -> Quote(val.v)
      [] val.t = "bool" -> val.v
      [] val.t = "object" -> marshalMap(val.v)
      [] OTHER -> "null"

\* a member of the hashed struct tagged omitempty
omitEmpty(name, value) == IF value = "" THEN "" ELSE "," \o Quote(name) \o ":" \o Quote(value)

hashActionRequest(req) ==
    "{" \o Quote("environment") \o ":" \o Quote(req.Environment)
        \o "," \o Quote("action") \o ":" \o Quote(req.Action)
        \o "," \o Quote("target") \o ":" \o Quote(req.Target)
        \o (IF DOMAIN req.Params.kv = {} THEN ""
            ELSE "," \o Quote("params") \o ":" \o marshalMap(req.Params.kv))
        \o "," \o Quote("dry_run") \o ":" \o (IF req.DryRun THEN "true" ELSE "false")
        \o omitEmpty("approved_by", req.ApprovedBy)
        \o omitEmpty("approval_ticket", req.ApprovalTicket)
        \o omitEmpty("reason", req.Reason)
        \o omitEmpty("expires_at", req.ExpiresAt)
        \o "}"

(***************************************************************************)
(* Backend adapter: translation of a request to a cluster API call.        *)
(***************************************************************************)
defaultReadRetries == 3

\* APIClient.readRetries, as NewAPIClient sets it
readRetries == defaultReadRetries

\* APIClient.envs: the connection parameters of each configured environment
apiEnvironment(name) ==
    [ baseURL |-> "https://" \o name \o ".example.com",
      tokenID |-> "root@pam!" \o name,
      tokenSecret |-> "secret-" \o name ]

BuildTokenAuthHeader(tokenID, tokenSecret) == "PVEAPIToken=" \o tokenID \o "=" \o tokenSecret

SlashPositions(s) == {i \in 1..Len(s) : Ch(s, i) = "/"}

\* parseVMTarget: strings.Split(TrimSpace(target), "/") must give two non-empty parts
parseVMTarget(target) ==
    LET t == TrimSpace(target)
        slashes == SlashPositions(t)
        i == CHOOSE j \in slashes : TRUE
    IN IF Cardinality(slashes) # 1 \/ i = 1 \/ i = Len(t)
       THEN [ err |-> "invalid VM target " \o Quote(target) \o "; expected node/vmid",
              node |-> "", vmid |-> "" ]
       ELSE [ err |-> "", node |-> SubSeq(t, 1, i - 1), vmid |-> SubSeq(t, i + 1, Len(t)) ]

RequestSpecResult(err, method, endpoint, params) ==
    [ err |-> err, method |-> method, endpoint |-> endpoint, params |-> params ]

\* customEndpointSpec(params, defaultMethod)
customEndpointSpec(params, defaultMethod) ==
    IF params.isNil THEN RequestSpecResult("params are required for this action", "", "", NilParams)
    ELSE LET kv == params.kv
             hasEndpoint == "endpoint" \in DOMAIN kv /\ kv["endpoint"].t = "string"
             rawEndpoint == IF hasEndpoint THEN kv["endpoint"].v ELSE ""
             hasMethod == "method" \in DOMAIN kv /\ kv["method"].t = "string"
                            /\ TrimSpace(kv["method"].v) # ""
             method == IF hasMethod THEN ToUpper(TrimSpace(kv["method"].v)) ELSE defaultMethod
         IN IF ~hasEndpoint \/ TrimSpace(rawEndpoint) = ""
            THEN RequestSpecResult("params.endpoint is required for this action", "", "", NilParams)
            ELSE IF ~HasPrefix(rawEndpoint, "/api2/json/")
            THEN RequestSpecResult("invalid endpoint " \o Quote(rawEndpoint), "", "", NilParams)
            ELSE RequestSpecResult("", method, rawEndpoint,
                    MapParams([k \in DOMAIN kv \ {"endpoint", "method"} |-> kv[k]]))

vmEndpoint(target, suffix) ==
    "/api2/json/nodes/" \o parseVMTarget(target).node \o "/qemu/"
        \o parseVMTarget(target).vmid \o suffix

\* requestSpec(req): (method, endpoint, params, err)
requestSpec(req) ==
    CASE req.Action = ActionReadVM ->
            IF parseVMTarget(req.Target).err # ""
            THEN RequestSpecResult(parseVMTarget(req.Target).err, "", "", NilParams)
            ELSE RequestSpecResult("", "GET", vmEndpoint(req.Target, "/status/current"), NilParams)
      [] req.Action \in {ActionStartVM, ActionStopVM, ActionSnapshotVM, ActionMigrateVM} ->
            IF parseVMTarget(req.Target).err # ""
            THEN RequestSpecResult(parseVMTarget(req.Target).err, "", "", NilParams)
            ELSE RequestSpecResult("", "POST",
                    vmEndpoint(req.Target,
                        CASE req.Action = ActionStartVM -> "/status/start"
                          [] req.Action = ActionStopVM -> "/status/stop"
                          [] req.Action = ActionSnapshotVM -> "/snapshot"
                          [] OTHER -> "/migrate"),
                    req.Params)
      [] req.Action = ActionDeleteVM ->
            IF parseVMTarget(req.Target).err # ""
            THEN RequestSpecResult(parseVMTarget(req.Target).err, "", "", NilParams)
            ELSE RequestSpecResult("", "DELETE", vmEndpoint(req.Target, ""), req.Params)
      [] req.Action = ActionStorageEdit -> customEndpointSpec(req.Params, "PUT")
      [] req.Action = ActionFirewallEdit -> customEndpointSpec(req.Params, "POST")
      [] OTHER -> RequestSpecResult("unsupported action " \o Quote(req.Action), "", "", NilParams)

\* encodeParams: no body for an empty map, else the url-encoded form values
encodeParams(params) ==
    IF Cardinality(DOMAIN params.kv) = 0
    THEN [ present |-> FALSE, values |-> params.kv ]
    ELSE [ present |-> TRUE,
           values |-> [k \in DOMAIN params.kv \ {""} |-> params.kv[k]] ]

attemptsRetryAll(method) == IF readRetries < 1 THEN 1 ELSE readRetries

\* the attempt count of performRequest
attemptsFor(method) ==
    LET attempts == IF method = "GET" THEN readRetries ELSE 1
    IN IF attempts < 1 THEN 1 ELSE attempts

retryOnAnyStatus(method, attempt, status) ==
    method = "GET" /\ attempt < attemptsFor(method)

\* the retry condition of performRequest on a non-2xx response
retryOnStatus(method, attempt, status) ==
    method = "GET" /\ attempt < attemptsFor(method) /\ status \in {502, 503, 504}

\* response bodies of the cluster API
JsonBody(raw, valid, error, errors, data) ==
    [ raw |-> raw, valid |-> valid, error |-> error, errors |-> errors, data |-> data ]

JNull == [t |-> "null", v |-> ""]

BodyEmpty == JsonBody("", FALSE, "", JNull, JNull)

BodyInvalid == JsonBody("<html>bad gateway</html>", FALSE, "", JNull, JNull)

BodyTask == JsonBody("{\"data\":\"UPID:node1:0001\"}", TRUE, "", JNull, StrVal("UPID:node1:0001"))

BodyObject == JsonBody("{\"data\":{\"status\":\"running\"}}", TRUE, "", JNull,
                       [t |-> "object", v |-> "map[status:running]"])

BodyErrors == JsonBody("{\"errors\":\"temporary upstream failure\"}", TRUE, "",
                       StrVal("temporary upstream failure"), JNull)

extractErrorMessage(respBody) ==
    IF Len(respBody.raw) = 0 THEN "empty error response"
    ELSE IF ~respBody.valid THEN TrimSpace(respBody.raw)
    ELSE IF respBody.error # "" THEN respBody.error
    ELSE IF respBody.errors.t # "null" THEN respBody.errors.v
    ELSE IF respBody.data.t # "null" THEN respBody.data.v
    ELSE TrimSpace(respBody.raw)

APIErrorString(statusCode, method, endpoint, message) ==
    IF statusCode = 0
    THEN "proxmox API error (" \o method \o " " \o endpoint \o "): " \o message
    ELSE "proxmox API error (" \o method \o " " \o endpoint \o ") status "
            \o ToString(statusCode) \o ": " \o message

ActionResult(status, message) == [ Status |-> status, Message |-> message ]

ZeroResult == ActionResult("", "")

\* the outcome of Execute: an error string ("" for nil) and a result
ExecOutcome(err, result) == [ err |-> err, result |-> result ]

\* the tail of Execute after performRequest returned respBody without error
resultOf(req, respBody) ==
    IF Len(respBody.raw) > 0 /\ ~respBody.valid
    THEN ExecOutcome("decode proxmox response: invalid character", ZeroResult)
    ELSE LET status == IF req.Action = ActionReadVM THEN "ok" ELSE "accepted"
             message == IF req.Action = ActionReadVM
                        THEN "vm state retrieved from Proxmox API"
                        ELSE "request accepted by Proxmox API"
             data == IF Len(respBody.raw) > 0 THEN respBody.data ELSE JNull
         IN ExecOutcome("", ActionResult(status,
                IF data.t = "string" /\ data.v # "" THEN data.v ELSE message))

(***************************************************************************)
(* State.                                                                  *)
(***************************************************************************)
VARIABLES
    authToken,      \* Server.authToken
    auditTo,        \* Runner.auditTo, "" when no audit path is configured
    clock,          \* the time since the server started, in ticks
    records,        \* idempotencyStore.records: store key -> idempotencyRecord
    auditLog,       \* the lines of the audit file, oldest first
    execCalls,      \* number of calls of Client.Execute
    pc,             \* where each handler is
    httpReq,        \* the HTTP request a handler serves
    req,            \* its proxmox.ActionRequest
    resp,           \* the response written to its client
    planDecision,   \* the decision Runner.Plan returned to it
    applyDecision,  \* the decision of EvaluateForApply in its Runner.Apply
    execOutcome,    \* what Execute returned to it
    call,           \* the cluster API call of its Execute: method, endpoint, body
    sent,           \* the HTTP round trips of its Execute (request, answer), oldest first
    audited,        \* the audit records it appended, oldest first
    trail           \* what it did at the idempotency gate and store

vars == << authToken, auditTo, clock, records, auditLog, execCalls, pc, httpReq, req, resp,
           planDecision, applyDecision, execOutcome, call, sent, audited, trail >>

\* what no handler changes: the server's settings, and the time, which passes
\* between the steps of the handlers and which none of them reads
serverVars == << authToken, auditTo, clock >>

(***************************************************************************)
(* HTTP front-end: the part of a handler before the idempotency gate.      *)
(***************************************************************************)
PlanPath == "/v1/actions/plan"

ApplyPath == "/v1/actions/apply"

InventoryPath == "/v1/inventory"

EnvironmentsPath == "/v1/environments"

Response(status, contentType, body) ==
    [ status |-> status, contentType |-> contentType, body |-> body ]

NoResponse == Response(0, "", [none |-> TRUE])

\* http.Error(w, message, status)
httpError(message, status) ==
    Response(status, "text/plain; charset=utf-8", [text |-> message \o "\n"])

\* an HTTP request: body is the JSON document of a POST (its known fields, whether it
\* has a field the struct lacks, whether content follows the object), query the
\* parameters of a GET
HTTPRequest(method, path, authorization, actorID, idemKey, body, query) ==
    [ method |-> method, path |-> path, authorization |-> authorization,
      actorID |-> actorID, idemKey |-> idemKey, body |-> body, query |-> query ]

JSONBody(fields, unknownField, trailing) ==
    [ fields |-> fields, unknownField |-> unknownField, trailing |-> trailing ]

NoBody == JSONBody(ZeroRequest, FALSE, FALSE)

NoQuery == [ environment |-> "", state |-> "" ]

NoRequest == HTTPRequest("", "", "", "", "", NoBody, NoQuery)

requireAuthAcceptsAnyBearer(token, r) ==
    LET rawAuth == TrimSpace(r.authorization)
        actor == TrimSpace(r.actorID)
    IN IF token = ""
       THEN [ ok |-> FALSE, actor |-> "",
              resp |-> httpError("server auth token is not configured", 503) ]
       ELSE IF ~HasPrefix(rawAuth, "Bearer ")
       THEN [ ok |-> FALSE, actor |-> "", resp |-> httpError("missing bearer token", 401) ]
       ELSE [ ok |-> TRUE, actor |-> IF actor = "" THEN "authenticated" ELSE actor,
              resp |-> NoResponse ]

requireAuthIgnoresActorHeader(token, r) ==
    LET rawAuth == TrimSpace(r.authorization)
        bearer == TrimSpace(TrimPrefix(rawAuth, "Bearer "))
    IN IF token = ""
       THEN [ ok |-> FALSE, actor |-> "",
              resp |-> httpError("server auth token is not configured", 503) ]
       ELSE IF ~HasPrefix(rawAuth, "Bearer ")
       THEN [ ok |-> FALSE, actor |-> "", resp |-> httpError("missing bearer token", 401) ]
       ELSE IF bearer # token
       THEN [ ok |-> FALSE, actor |-> "", resp |-> httpError("invalid bearer token", 401) ]
       ELSE [ ok |-> TRUE, actor |-> "authenticated", resp |-> NoResponse ]

\* requireAuth: [ok, actor, resp]
requireAuth(token, r) ==
    LET rawAuth == TrimSpace(r.authorization)
        bearer == TrimSpace(TrimPrefix(rawAuth, "Bearer "))
        actor == TrimSpace(r.actorID)
    IN IF token = ""
       THEN [ ok |-> FALSE, actor |-> "",
              resp |-> httpError("server auth token is not configured", 503) ]
       ELSE IF ~HasPrefix(rawAuth, "Bearer ")
       THEN [ ok |-> FALSE, actor |-> "", resp |-> httpError("missing bearer token", 401) ]
       ELSE IF bearer # token
       THEN [ ok |-> FALSE, actor |-> "", resp |-> httpError("invalid bearer token", 401) ]
       ELSE [ ok |-> TRUE, actor |-> IF actor = "" THEN "authenticated" ELSE actor,
              resp |-> NoResponse ]

decodeLenientJSON(body) == ""

\* decodeStrictJSON: the error ("" for nil); Actor is json:"-", so a body that
\* carries an actor carries a field the decoder does not know
decodeStrictJSON(body) ==
    IF body.unknownField \/ body.fields.Actor # "" THEN "json: unknown field"
    ELSE IF body.trailing THEN "unexpected trailing JSON"
    ELSE ""

decoded(body) == [body.fields EXCEPT !.Actor = ""]

Admission(proceed, request, response) ==
    [ proceed |-> proceed, req |-> request, resp |-> response ]

\* Server.plan and Server.apply up to tryReplayIdempotent
admitAction(token, r) ==
    LET auth == requireAuth(token, r)
        request == decoded(r.body)
        invalid == ValidateActionRequest(request)
    IN IF r.method # "POST"
         THEN Admission(FALSE, ZeroRequest, httpError("method not allowed", 405))
       ELSE IF ~auth.ok THEN Admission(FALSE, ZeroRequest, auth.resp)
       ELSE IF decodeStrictJSON(r.body) # ""
         THEN Admission(FALSE, ZeroRequest, httpError("invalid JSON body", 400))
       ELSE IF invalid # "" THEN Admission(FALSE, request, httpError(invalid, 400))
       ELSE Admission(TRUE, [request EXCEPT !.Actor = auth.actor], NoResponse)

\* Server.inventory up to tryReplayIdempotent
admitInventory(token, r) ==
    LET auth == requireAuth(token, r)
        environment == TrimSpace(r.query.environment)
        state == IF TrimSpace(r.query.state) = "" THEN "all" ELSE TrimSpace(r.query.state)
        request == ActionRequest(environment, ActionReadInventory, "inventory/" \o state,
                                 NilParams, FALSE, "", "", "", "", auth.actor)
        invalid == ValidateActionRequest(request)
    IN IF r.method # "GET"
         THEN Admission(FALSE, ZeroRequest, httpError("method not allowed", 405))
       ELSE IF ~auth.ok THEN Admission(FALSE, ZeroRequest, auth.resp)
       ELSE IF environment = ""
         THEN Admission(FALSE, ZeroRequest,
                        httpError("environment query parameter is required", 400))
       ELSE IF invalid # "" THEN Admission(FALSE, request, httpError(invalid, 400))
       ELSE Admission(TRUE, request, NoResponse)

\* Server.environments: the whole handler, which never reaches the runner
admitEnvironments(token, r) ==
    LET auth == requireAuth(token, r)
    IN IF r.method # "GET"
         THEN Admission(FALSE, ZeroRequest, httpError("method not allowed", 405))
       ELSE IF ~auth.ok THEN Admission(FALSE, ZeroRequest, auth.resp)
       ELSE Admission(FALSE, ZeroRequest,
                Response(200, "application/json",
                    [ environments |->
                        [ name \in ConfiguredEnvironments |->
                            [ base_url |-> apiEnvironment(name).baseURL,
                              token_id |-> apiEnvironment(name).tokenID ] ] ]))

admit(token, r) ==
    IF r.path = InventoryPath THEN admitInventory(token, r)
    ELSE IF r.path = EnvironmentsPath THEN admitEnvironments(token, r)
    ELSE admitAction(token, r)

(***************************************************************************)
(* Idempotency store.                                                      *)
(***************************************************************************)
idempotencyRecord(payloadHash, statusCode, contentType, body) ==
    [ payloadHash |-> payloadHash, statusCode |-> statusCode,
      contentType |-> contentType, body |-> body ]

\* the map key of idempotencyStore: scope + "|" + key
storeKeyWithoutScope(scope, key) == key

storeKey(scope, key) == scope \o "|" \o key

\* idempotencyStore.Get: whether a record is stored
storeHas(scope, key) == storeKey(scope, key) \in DOMAIN records

\* idempotencyStore.Get: the stored record (a copy)
storeGet(scope, key) == records[storeKey(scope, key)]

\* idempotencyStore.Put: the new map
storePut(scope, key, rec) ==
    [k \in DOMAIN records \cup {storeKey(scope, key)} |->
        IF k = storeKey(scope, key) THEN rec ELSE records[k]]

\* the branch tryReplayIdempotent takes: "proceed", "conflict" or "replay"
replayNeverReplays(r, request) ==
    LET key == TrimSpace(r.idemKey)
    IN IF key = "" THEN "proceed"
       ELSE IF storeHas(r.path, key)
              /\ storeGet(r.path, key).payloadHash # hashActionRequest(request) THEN "conflict"
       ELSE "proceed"

replayNeverConflicts(r, request) ==
    LET key == TrimSpace(r.idemKey)
    IN IF key = "" THEN "proceed"
       ELSE IF storeHas(r.path, key)
              /\ storeGet(r.path, key).payloadHash = hashActionRequest(request) THEN "replay"
       ELSE "proceed"

tryReplayIdempotent(r, request) ==
    LET key == TrimSpace(r.idemKey)
    IN IF key = "" THEN "proceed"
       ELSE IF storeHas(r.path, key)
         THEN IF storeGet(r.path, key).payloadHash # hashActionRequest(request)
              THEN "conflict" ELSE "replay"
       ELSE "proceed"

\* the JSON document of a request on the wire (Actor is json:"-")
wire(request) == [request EXCEPT !.Actor = ""]

\* marshalJSONBody of the handler's success value
planBody(request, decision) == [ request |-> wire(request), decision |-> decision ]

applyBody(request, decision, result) ==
    [ request |-> wire(request), decision |-> decision, result |-> result ]

inventoryBody(request, plan, result) ==
    [ request |-> wire(request), plan |-> plan, result |-> result ]

jsonResponse(status, body) == Response(status, "application/json", body)

(***************************************************************************)
(* Audit log.                                                              *)
(***************************************************************************)
NoResult == [ present |-> FALSE, value |-> ZeroResult ]

SomeResult(result) == [ present |-> TRUE, value |-> result ]

\* the record Runner.audit encodes (the timestamp is left out)
auditRecord(kind, request, decision, result) ==
    [ kind |-> kind, actor |-> request.Actor, request |-> wire(request),
      decision |-> decision, result |-> result ]

AuditPath == "./data/audit.log"

\* an audit path whose MkdirAll or OpenFile fails
UnwritablePath == "/proc/none/audit.log"

AuditError == "open " \o UnwritablePath \o ": permission denied"

auditPrepends(kind, request, decision, result) ==
    IF auditTo = "" THEN [ err |-> "", log |-> auditLog, written |-> << >> ]
    ELSE IF auditTo = UnwritablePath
    THEN [ err |-> AuditError, log |-> auditLog, written |-> << >> ]
    ELSE [ err |-> "",
           log |-> << auditRecord(kind, request, decision, result) >> \o auditLog,
           written |-> << auditRecord(kind, request, decision, result) >> ]

auditOverwritesLast(kind, request, decision, result) ==
    IF auditTo = "" THEN [ err |-> "", log |-> auditLog, written |-> << >> ]
    ELSE IF auditTo = UnwritablePath
    THEN [ err |-> AuditError, log |-> auditLog, written |-> << >> ]
    ELSE [ err |-> "",
           log |-> IF auditLog = << >>
                   THEN << auditRecord(kind, request, decision, result) >>
                   ELSE [auditLog EXCEPT ![Len(auditLog)] =
                            auditRecord(kind, request, decision, result)],
           written |-> << auditRecord(kind, request, decision, result) >> ]

\* Runner.audit: [err, log, written]
audit(kind, request, decision, result) ==
    IF auditTo = "" THEN [ err |-> "", log |-> auditLog, written |-> << >> ]
    ELSE IF auditTo = UnwritablePath
    THEN [ err |-> AuditError, log |-> auditLog, written |-> << >> ]
    ELSE [ err |-> "",
           log |-> Append(auditLog, auditRecord(kind, request, decision, result)),
           written |-> << auditRecord(kind, request, decision, result) >> ]

(***************************************************************************)
(* Action runner.                                                          *)
(***************************************************************************)
RunnerPlanWithoutAudit(request) ==
    LET e == EvaluateForPlan(request)
    IN IF e.err # ""
       THEN [ err |-> e.err, decision |-> ZeroDecision, log |-> auditLog, written |-> << >> ]
       ELSE [ err |-> "", decision |-> e.decision, log |-> auditLog, written |-> << >> ]

\* Runner.Plan: [err, decision, log, written]
RunnerPlan(request) ==
    LET e == EvaluateForPlan(request)
        a == audit("plan", request, e.decision, NoResult)
    IN IF e.err # ""
       THEN [ err |-> e.err, decision |-> ZeroDecision, log |-> auditLog, written |-> << >> ]
       ELSE IF a.err # ""
       THEN [ err |-> a.err, decision |-> ZeroDecision, log |-> a.log, written |-> a.written ]
       ELSE [ err |-> "", decision |-> e.decision, log |-> a.log, written |-> a.written ]

RunnerApplyGateSkipsDryRun(request) ==
    LET e == IF request.DryRun THEN EvaluateForPlan(request) ELSE EvaluateForApply(request)
        a == audit("apply_denied", request, e.decision, NoResult)
    IN IF e.err # ""
       THEN [ err |-> e.err, execute |-> FALSE, decision |-> ZeroDecision,
              log |-> auditLog, written |-> << >> ]
       ELSE IF ~e.decision.Allowed
       THEN [ err |-> IF a.err # "" THEN a.err
                      ELSE "request denied by policy: " \o e.decision.Reason,
              execute |-> FALSE, decision |-> e.decision,
              log |-> a.log, written |-> a.written ]
       ELSE [ err |-> "", execute |-> TRUE, decision |-> e.decision,
              log |-> auditLog, written |-> << >> ]

RunnerApplyGateHidesAuditError(request) ==
    LET e == EvaluateForApply(request)
        a == audit("apply_denied", request, e.decision, NoResult)
    IN IF e.err # ""
       THEN [ err |-> e.err, execute |-> FALSE, decision |-> ZeroDecision,
              log |-> auditLog, written |-> << >> ]
       ELSE IF ~e.decision.Allowed
       THEN [ err |-> "request denied by policy: " \o e.decision.Reason,
              execute |-> FALSE, decision |-> e.decision,
              log |-> a.log, written |-> a.written ]
       ELSE [ err |-> "", execute |-> TRUE, decision |-> e.decision,
              log |-> auditLog, written |-> << >> ]

\* Runner.Apply up to the call of Execute: [err, execute, decision, log, written]
RunnerApplyGate(request) ==
    LET e == EvaluateForApply(request)
        a == audit("apply_denied", request, e.decision, NoResult)
    IN IF e.err # ""
       THEN [ err |-> e.err, execute |-> FALSE, decision |-> ZeroDecision,
              log |-> auditLog, written |-> << >> ]
       ELSE IF ~e.decision.Allowed
       THEN [ err |-> IF a.err # "" THEN a.err
                      ELSE "request denied by policy: " \o e.decision.Reason,
              execute |-> FALSE, decision |-> e.decision,
              log |-> a.log, written |-> a.written ]
       ELSE [ err |-> "", execute |-> TRUE, decision |-> e.decision,
              log |-> auditLog, written |-> << >> ]

RunnerApplyFinishAuditsFirst(request, decision, outcome) ==
    LET a == audit("apply", request, decision, SomeResult(outcome.result))
    IN IF a.err # ""
       THEN [ err |-> a.err, log |-> a.log, written |-> a.written ]
       ELSE [ err |-> outcome.err, log |-> a.log, written |-> a.written ]

RunnerApplyFinishIgnoresError(request, decision, outcome) ==
    LET a == audit("apply", request, decision, SomeResult(outcome.result))
    IN [ err |-> a.err, log |-> a.log, written |-> a.written ]

\* Runner.Apply after Execute returned: [err, log, written]
RunnerApplyFinish(request, decision, outcome) ==
    LET a == audit("apply", request, decision, SomeResult(outcome.result))
    IN IF outcome.err # ""
       THEN [ err |-> outcome.err, log |-> auditLog, written |-> << >> ]
       ELSE [ err |-> a.err, log |-> a.log, written |-> a.written ]

(***************************************************************************)
(* The handlers, one step per access to shared state.                      *)
(***************************************************************************)
Trail(admitted, gate, stored, executed) ==
    [ admitted |-> admitted, gate |-> gate, stored |-> stored, executed |-> executed ]

NoCall == [ method |-> "", endpoint |-> "", body |-> encodeParams(NilParams),
            environment |-> "", attempt |-> 0 ]

NoOutcome == ExecOutcome("", ZeroResult)

\* a handler takes an HTTP request and runs up to the idempotency gate; the
\* handlers are numbered in the order in which their requests arrive
Serve(h, r) ==
    /\ pc[h] = "idle"
    /\ \A g \in Handlers : g < h => pc[g] # "idle"
    /\ LET a == admit(authToken, r)
       IN /\ httpReq' = [httpReq EXCEPT ![h] = r]
          /\ req' = [req EXCEPT ![h] = a.req]
          /\ IF a.proceed
             THEN /\ pc' = [pc EXCEPT ![h] = "replay"]
                  /\ trail' = [trail EXCEPT ![h].admitted = TRUE]
                  /\ resp' = resp
             ELSE /\ pc' = [pc EXCEPT ![h] = "done"]
                  /\ resp' = [resp EXCEPT ![h] = a.resp]
                  /\ trail' = trail
    /\ UNCHANGED << serverVars, records, auditLog, execCalls, planDecision, applyDecision,
                    execOutcome, call, sent, audited >>

\* tryReplayIdempotent
TryReplay(h) ==
    /\ pc[h] = "replay"
    /\ LET branch == tryReplayIdempotent(httpReq[h], req[h])
           rec == storeGet(httpReq[h].path, TrimSpace(httpReq[h].idemKey))
       IN /\ trail' = [trail EXCEPT ![h].gate = branch]
          /\ CASE branch = "conflict" ->
                    /\ resp' = [resp EXCEPT ![h] =
                            httpError("idempotency key reused with different payload", 409)]
                    /\ pc' = [pc EXCEPT ![h] = "done"]
               [] branch = "replay" ->
                    /\ resp' = [resp EXCEPT ![h] =
                            Response(rec.statusCode, rec.contentType, rec.body)]
                    /\ pc' = [pc EXCEPT ![h] = "done"]
               [] OTHER ->
                    /\ resp' = resp
                    /\ pc' = [pc EXCEPT ![h] =
                            IF httpReq[h].path = ApplyPath THEN "apply" ELSE "plan"]
    /\ UNCHANGED << serverVars, records, auditLog, execCalls, httpReq, req, planDecision,
                    applyDecision, execOutcome, call, sent, audited >>

\* Runner.Plan, and what Server.plan and Server.inventory do with its result
Plan(h) ==
    /\ pc[h] = "plan"
    /\ LET p == RunnerPlan(req[h])
       IN /\ auditLog' = p.log
           /\ audited' = [audited EXCEPT ![h] = audited[h] \o p.written]
           /\ planDecision' = [planDecision EXCEPT ![h] = p.decision]
           /\ IF p.err # ""
              THEN /\ resp' = [resp EXCEPT ![h] = httpError(p.err, 400)]
                   /\ pc' = [pc EXCEPT ![h] = "store"]
              ELSE IF httpReq[h].path = InventoryPath
              THEN /\ resp' = resp
                   /\ pc' = [pc EXCEPT ![h] = "apply"]
              ELSE /\ resp' = [resp EXCEPT ![h] = jsonResponse(200, planBody(req[h], p.decision))]
                   /\ pc' = [pc EXCEPT ![h] = "store"]
    /\ UNCHANGED << serverVars, records, execCalls, httpReq, req, applyDecision,
                    execOutcome, call, sent, trail >>

\* Runner.Apply: the policy decision and, when it denies, the apply_denied record
ApplyGate(h) ==
    /\ pc[h] = "apply"
    /\ LET a == RunnerApplyGate(req[h])
       IN /\ auditLog' = a.log
           /\ audited' = [audited EXCEPT ![h] = audited[h] \o a.written]
           /\ applyDecision' = [applyDecision EXCEPT ![h] = a.decision]
           /\ IF a.execute
              THEN /\ resp' = resp
                   /\ pc' = [pc EXCEPT ![h] = "execute"]
              ELSE /\ resp' = [resp EXCEPT ![h] = httpError(a.err, 403)]
                   /\ pc' = [pc EXCEPT ![h] = "store"]
    /\ UNCHANGED << serverVars, records, execCalls, httpReq, req, planDecision,
                    execOutcome, call, sent, trail >>

ExecuteResolvesEnvironmentFirst(h) ==
    /\ pc[h] = "execute"
    /\ execCalls' = execCalls + 1
    /\ trail' = [trail EXCEPT ![h].executed = @ + 1]
    /\ LET spec == requestSpec(req[h])
       IN IF req[h].Environment \notin ConfiguredEnvironments
          THEN /\ execOutcome' = [execOutcome EXCEPT ![h] = ExecOutcome(
                        "unknown environment " \o Quote(req[h].Environment), ZeroResult)]
               /\ pc' = [pc EXCEPT ![h] = "executed"]
               /\ call' = call
          ELSE IF req[h].DryRun
          THEN /\ execOutcome' = [execOutcome EXCEPT ![h] = ExecOutcome("",
                        ActionResult("planned", "dry-run only; no Proxmox API call made"))]
               /\ pc' = [pc EXCEPT ![h] = "executed"]
               /\ call' = call
          ELSE IF spec.err # ""
          THEN /\ execOutcome' = [execOutcome EXCEPT ![h] = ExecOutcome(spec.err, ZeroResult)]
               /\ pc' = [pc EXCEPT ![h] = "executed"]
               /\ call' = call
          ELSE /\ call' = [call EXCEPT ![h] =
                        [ method |-> spec.method, endpoint |-> spec.endpoint,
                          body |-> encodeParams(spec.params),
                          environment |-> req[h].Environment, attempt |-> 1 ]]
               /\ pc' = [pc EXCEPT ![h] = "attempt"]
               /\ execOutcome' = execOutcome
    /\ UNCHANGED << serverVars, records, auditLog, httpReq, req, resp, planDecision,
                    applyDecision, sent, audited >>

\* APIClient.Execute up to performRequest
Execute(h) ==
    /\ pc[h] = "execute"
    /\ execCalls' = execCalls + 1
    /\ trail' = [trail EXCEPT ![h].executed = @ + 1]
    /\ LET spec == requestSpec(req[h])
       IN IF req[h].DryRun
          THEN /\ execOutcome' = [execOutcome EXCEPT ![h] = ExecOutcome("",
                        ActionResult("planned", "dry-run only; no Proxmox API call made"))]
               /\ pc' = [pc EXCEPT ![h] = "executed"]
               /\ call' = call
          ELSE IF req[h].Environment \notin ConfiguredEnvironments
          THEN /\ execOutcome' = [execOutcome EXCEPT ![h] = ExecOutcome(
                        "unknown environment " \o Quote(req[h].Environment), ZeroResult)]
               /\ pc' = [pc EXCEPT ![h] = "executed"]
               /\ call' = call
          ELSE IF spec.err # ""
          THEN /\ execOutcome' = [execOutcome EXCEPT ![h] = ExecOutcome(spec.err, ZeroResult)]
               /\ pc' = [pc EXCEPT ![h] = "executed"]
               /\ call' = call
          ELSE /\ call' = [call EXCEPT ![h] =
                        [ method |-> spec.method, endpoint |-> spec.endpoint,
                          body |-> encodeParams(spec.params),
                          environment |-> req[h].Environment, attempt |-> 1 ]]
               /\ pc' = [pc EXCEPT ![h] = "attempt"]
               /\ execOutcome' = execOutcome
    /\ UNCHANGED << serverVars, records, auditLog, httpReq, req, resp, planDecision,
                    applyDecision, sent, audited >>

\* what the cluster answers to one round trip
NetOutcome(kind, status, body) == [ kind |-> kind, status |-> status, body |-> body ]

Transport == NetOutcome("transport", 0, BodyEmpty)

ReadError == NetOutcome("read", 200, BodyEmpty)

Http(status, body) == NetOutcome("http", status, body)

outboundWithHomeCredentials(c) ==
    [ method |-> c.method,
      url |-> apiEnvironment(c.environment).baseURL \o c.endpoint,
      authorization |-> BuildTokenAuthHeader(apiEnvironment("home").tokenID,
                                             apiEnvironment("home").tokenSecret),
      accept |-> "application/json",
      contentType |-> IF c.body.present THEN "application/x-www-form-urlencoded" ELSE "" ]

\* the request performRequest builds for one attempt
outbound(c) ==
    [ method |-> c.method,
      url |-> apiEnvironment(c.environment).baseURL \o c.endpoint,
      authorization |-> BuildTokenAuthHeader(apiEnvironment(c.environment).tokenID,
                                             apiEnvironment(c.environment).tokenSecret),
      accept |-> "application/json",
      contentType |-> IF c.body.present THEN "application/x-www-form-urlencoded" ELSE "" ]

\* one iteration of the loop of performRequest, and the tail of Execute when it returns
performRequest(h, o) ==
    /\ pc[h] = "attempt"
    /\ sent' = [sent EXCEPT ![h] = Append(sent[h], [request |-> outbound(call[h]), answer |-> o])]
    /\ LET c == call[h]
           last == ~(c.attempt < attemptsFor(c.method))
           return(outcome) ==
                /\ execOutcome' = [execOutcome EXCEPT ![h] = outcome]
                /\ pc' = [pc EXCEPT ![h] = "executed"]
                /\ call' = call
           continue ==
                /\ call' = [call EXCEPT ![h].attempt = @ + 1]
                /\ pc' = pc
                /\ execOutcome' = execOutcome
       IN CASE o.kind = "transport" ->
                IF ~last THEN continue
                ELSE return(ExecOutcome(
                        APIErrorString(0, c.method, c.endpoint, "transport failure"), ZeroResult))
            [] o.kind = "read" -> return(ExecOutcome("unexpected EOF", ZeroResult))
            [] OTHER ->
                IF o.status >= 200 /\ o.status < 300 THEN return(resultOf(req[h], o.body))
                ELSE IF retryOnStatus(c.method, c.attempt, o.status) THEN continue
                ELSE return(ExecOutcome(
                        APIErrorString(o.status, c.method, c.endpoint,
                                       extractErrorMessage(o.body)), ZeroResult))
    /\ UNCHANGED << serverVars, records, auditLog, execCalls, httpReq, req, resp,
                    planDecision, applyDecision, audited, trail >>

\* the answers of the cluster in the behaviours of the server
ServerNetOutcomes == { Transport, Http(200, BodyTask), Http(502, BodyErrors) }

Attempt(h) == \E o \in ServerNetOutcomes : performRequest(h, o)

\* Runner.Apply after Execute, and what Server.apply and Server.inventory do with it
ApplyFinish(h) ==
    /\ pc[h] = "executed"
    /\ LET f == RunnerApplyFinish(req[h], applyDecision[h], execOutcome[h])
       IN /\ auditLog' = f.log
           /\ audited' = [audited EXCEPT ![h] = audited[h] \o f.written]
           /\ resp' = [resp EXCEPT ![h] =
                    IF f.err # "" THEN httpError(f.err, 403)
                    ELSE IF httpReq[h].path = InventoryPath
                    THEN jsonResponse(200, inventoryBody(req[h], planDecision[h],
                                                         execOutcome[h].result))
                    ELSE jsonResponse(200, applyBody(req[h], applyDecision[h],
                                                     execOutcome[h].result))]
           /\ pc' = [pc EXCEPT ![h] = "store"]
    /\ UNCHANGED << serverVars, records, execCalls, httpReq, req, planDecision,
                    applyDecision, execOutcome, call, sent, trail >>

StoreIdempotencyOnSuccess(h) ==
    /\ pc[h] = "store"
    /\ LET key == TrimSpace(httpReq[h].idemKey)
       IN IF key = "" \/ resp[h].status >= 400
          THEN UNCHANGED << records, trail >>
          ELSE /\ records' = storePut(httpReq[h].path, key,
                        idempotencyRecord(hashActionRequest(req[h]), resp[h].status,
                                          resp[h].contentType, resp[h].body))
               /\ trail' = [trail EXCEPT ![h].stored = TRUE]
    /\ pc' = [pc EXCEPT ![h] = "done"]
    /\ UNCHANGED << serverVars, auditLog, execCalls, httpReq, req, resp, planDecision,
                    applyDecision, execOutcome, call, sent, audited >>

StoreIdempotencyAnyKey(h) ==
    /\ pc[h] = "store"
    /\ LET key == TrimSpace(httpReq[h].idemKey)
       IN /\ records' = storePut(httpReq[h].path, key,
                        idempotencyRecord(hashActionRequest(req[h]), resp[h].status,
                                          resp[h].contentType, resp[h].body))
          /\ trail' = [trail EXCEPT ![h].stored = TRUE]
    /\ pc' = [pc EXCEPT ![h] = "done"]
    /\ UNCHANGED << serverVars, auditLog, execCalls, httpReq, req, resp, planDecision,
                    applyDecision, execOutcome, call, sent, audited >>

\* storeIdempotencyResponse, after writeRaw sent the response
StoreIdempotency(h) ==
    /\ pc[h] = "store"
    /\ LET key == TrimSpace(httpReq[h].idemKey)
       IN IF key = ""
          THEN UNCHANGED << records, trail >>
          ELSE /\ records' = storePut(httpReq[h].path, key,
                        idempotencyRecord(hashActionRequest(req[h]), resp[h].status,
                                          resp[h].contentType, resp[h].body))
               /\ trail' = [trail EXCEPT ![h].stored = TRUE]
    /\ pc' = [pc EXCEPT ![h] = "done"]
    /\ UNCHANGED << serverVars, auditLog, execCalls, httpReq, req, resp, planDecision,
                    applyDecision, execOutcome, call, sent, audited >>

(***************************************************************************)
(* The server: concurrent requests.                                        *)
(***************************************************************************)
GoodAuth == "Bearer test-token"

actionBody(action, target, approvedBy, dryRun) ==
    JSONBody(ActionRequest("home", action, target, NilParams, dryRun, approvedBy,
                           "", "", "", ""), FALSE, FALSE)

post(path, key, body) == HTTPRequest("POST", path, GoodAuth, "test-agent", key, body, NoQuery)

\* the requests of the server's behaviours
ServerRequests ==
    { post(ApplyPath, "apply-key-1", actionBody(ActionStartVM, "vm/101", "", FALSE)),
      post(ApplyPath, "apply-key-1", actionBody(ActionStartVM, "vm/102", "", FALSE)),
      post(ApplyPath, "apply-key-1", actionBody(ActionDeleteVM, "vm/101", "", FALSE)),
      post(ApplyPath, "apply-key-1", actionBody(ActionDeleteVM, "vm/101", "ops-user", FALSE)),
      post(PlanPath, "apply-key-1", actionBody(ActionDeleteVM, "vm/101", "", FALSE)),
      post(PlanPath, "apply-key-1", actionBody(ActionStartVM, "vm/101", "", FALSE)),
      post(ApplyPath, "", actionBody(ActionStartVM, "vm/101", "", FALSE)),
      post(ApplyPath, " apply-key-1 ", actionBody(ActionReadVM, "vm/101", "", FALSE)),
      post(ApplyPath, "", actionBody(ActionDeleteVM, "vm/101", "ops-user", TRUE)),
      post(ApplyPath, "", actionBody(ActionStartVM, "node1/101", "", FALSE)),
      HTTPRequest("POST", ApplyPath, "Bearer wrong", "test-agent", "apply-key-1",
                  actionBody(ActionStartVM, "vm/101", "", FALSE), NoQuery),
      HTTPRequest("GET", PlanPath, GoodAuth, "", "", NoBody, NoQuery),
      post(PlanPath, "apply-key-1",
           JSONBody(actionBody(ActionReadVM, "vm/101", "", FALSE).fields, TRUE, FALSE)),
      HTTPRequest("GET", InventoryPath, GoodAuth, "", "apply-key-1", NoBody,
                  [ environment |-> "home", state |-> "" ]) }

Receive(h) == pc[h] = "idle" /\ \E r \in ServerRequests : Serve(h, r)

HandlerInit ==
    /\ records = [k \in {} |-> idempotencyRecord(hashActionRequest(ZeroRequest), 0, "", [none |-> TRUE])]
    /\ auditLog = << >>
    /\ execCalls = 0
    /\ pc = [h \in Handlers |-> "idle"]
    /\ httpReq = [h \in Handlers |-> NoRequest]
    /\ req = [h \in Handlers |-> ZeroRequest]
    /\ resp = [h \in Handlers |-> NoResponse]
    /\ planDecision = [h \in Handlers |-> ZeroDecision]
    /\ applyDecision = [h \in Handlers |-> ZeroDecision]
    /\ execOutcome = [h \in Handlers |-> NoOutcome]
    /\ call = [h \in Handlers |-> NoCall]
    /\ sent = [h \in Handlers |-> << >>]
    /\ audited = [h \in Handlers |-> << >>]
    /\ trail = [h \in Handlers |-> Trail(FALSE, "", FALSE, 0)]

Init ==
    /\ authToken \in {"", "test-token"}
    /\ auditTo \in {"", AuditPath, UnwritablePath}
    /\ clock = 0
    /\ HandlerInit

Next ==
    \E h \in Handlers :
        \/ Receive(h)
        \/ TryReplay(h)
        \/ Plan(h)
        \/ ApplyGate(h)
        \/ Execute(h)
        \/ Attempt(h)
        \/ ApplyFinish(h)
        \/ StoreIdempotency(h)

Spec == Init /\ [][Next]_vars

(***************************************************************************)
(* The server, its requests handled one after another.                     *)
(***************************************************************************)
SerialReceive(h) ==
    /\ pc[h] = "idle"
    /\ \A g \in Handlers : pc[g] \in {"idle", "done"}
    /\ \E r \in ServerRequests : Serve(h, r)

NextSerial ==
    \E h \in Handlers :
        \/ SerialReceive(h)
        \/ TryReplay(h)
        \/ Plan(h)
        \/ ApplyGate(h)
        \/ Execute(h)
        \/ Attempt(h)
        \/ ApplyFinish(h)
        \/ StoreIdempotency(h)

SpecSerial == Init /\ [][NextSerial]_vars

(***************************************************************************)
(* The server with one request, drawn from all shapes of request, and      *)
(* every kind of answer of the cluster.                                    *)
(***************************************************************************)
AnyActions == ValidatorActions \cup {"reboot_vm", ""}

AnyTargets ==
    { "vm/101", "node1/101", "inventory/running", "task/list",
      "storage/local-lvm", "firewall/node/pve1", "" }

AnyApprovedBy == {"", "ops-user", "  "}

AnyParams ==
    { NilParams,
      MapParams([endpoint |-> StrVal("/api2/json/cluster/firewall/options"),
                 method |-> StrVal("get"), enable |-> BoolVal(TRUE)]),
      MapParams([endpoint |-> StrVal("/api2/json/storage/local-lvm"),
                 content |-> StrVal("images")]),
      MapParams([endpoint |-> StrVal("/nodes/pve1/status"), command |-> StrVal("reboot")]) }

AnyBodies ==
    { JSONBody(ActionRequest("home", action, target, params, dryRun, approvedBy,
                             "", "", "", ""), FALSE, FALSE) :
        action \in AnyActions, target \in AnyTargets,
        params \in AnyParams, dryRun \in BOOLEAN, approvedBy \in AnyApprovedBy }
    \cup
    { JSONBody(ActionRequest(environment, ActionStartVM, "vm/101", NilParams, FALSE, "",
                             "", "", "", ""), unknownField, FALSE) :
        environment \in {"lab", "", " "}, unknownField \in BOOLEAN }

AnyRequests ==
    { post(path, "apply-key-1", body) : path \in {PlanPath, ApplyPath}, body \in AnyBodies }
    \cup
    { HTTPRequest("POST", ApplyPath, "Bearer test-token ", "", "",
                  JSONBody(ActionRequest("home", ActionDeleteVM, "vm/101", NilParams, FALSE,
                                         "ops-user", ticket, reason, expiresAt, ""),
                           FALSE, trailing), NoQuery) :
        ticket \in {"", "CHG-1234"}, reason \in {"", "short", "planned maintenance"},
        expiresAt \in {"", "tomorrow", "2026-02-20T18:00:00Z"}, trailing \in BOOLEAN }
    \cup
    { HTTPRequest(method, InventoryPath, authorization, "ops", "", NoBody,
                  [ environment |-> environment, state |-> state ]) :
        method \in {"GET", "POST"}, authorization \in {GoodAuth, "", "Bearer nope"},
        environment \in {"home", "", "lab"}, state \in {"", "running", "stopped"} }
    \cup
    { HTTPRequest(method, path, authorization, actorID, "apply-key-1",
                  JSONBody(ActionRequest("home", ActionStartVM, "vm/101", NilParams, FALSE, "",
                                         "", "", "", bodyActor), FALSE, FALSE),
                  [ environment |-> "home", state |-> "" ]) :
        method \in {"GET", "POST"},
        path \in {EnvironmentsPath, InventoryPath, PlanPath, ApplyPath},
        authorization \in {GoodAuth, "", "Bearer nope", "Basic dGVzdA==", "bearer test-token"},
        actorID \in {"", " ops "}, bodyActor \in {"", "root"} }

AnyNetOutcomes ==
    { Transport, ReadError, Http(200, BodyTask), Http(200, BodyObject), Http(204, BodyEmpty),
      Http(200, BodyInvalid), Http(500, BodyErrors), Http(502, BodyErrors),
      Http(503, BodyInvalid), Http(504, BodyEmpty) }

ReceiveAny(h) == h = 1 /\ pc[h] = "idle" /\ \E r \in AnyRequests : Serve(h, r)

AttemptAny(h) == \E o \in AnyNetOutcomes : performRequest(h, o)

NextOne ==
    \E h \in Handlers :
        \/ ReceiveAny(h)
        \/ TryReplay(h)
        \/ Plan(h)
        \/ ApplyGate(h)
        \/ Execute(h)
        \/ AttemptAny(h)
        \/ ApplyFinish(h)
        \/ StoreIdempotency(h)

SpecOne == Init /\ [][NextOne]_vars

(***************************************************************************)
(* The backend adapter alone: Execute called with any request.             *)
(***************************************************************************)
AdapterRequests ==
    { ActionRequest(environment, action, target, params, dryRun, "", "", "", "", "") :
        environment \in {"home", "lab"}, action \in AnyActions,
        target \in {"vm/101", "node1/200", "storage/local-lvm"},
        params \in AnyParams \cup {MapParams([node |-> StrVal("node1")])},
        dryRun \in BOOLEAN }

InitAdapter ==
    /\ authToken = "test-token"
    /\ auditTo = ""
    /\ clock = 0
    /\ records = [k \in {} |-> idempotencyRecord(hashActionRequest(ZeroRequest), 0, "", [none |-> TRUE])]
    /\ auditLog = << >>
    /\ execCalls = 0
    /\ pc = [h \in Handlers |-> IF h = 1 THEN "execute" ELSE "idle"]
    /\ httpReq = [h \in Handlers |-> NoRequest]
    /\ \E r \in AdapterRequests : req = [h \in Handlers |-> IF h = 1 THEN r ELSE ZeroRequest]
    /\ resp = [h \in Handlers |-> NoResponse]
    /\ planDecision = [h \in Handlers |-> ZeroDecision]
    /\ applyDecision = [h \in Handlers |-> ZeroDecision]
    /\ execOutcome = [h \in Handlers |-> NoOutcome]
    /\ call = [h \in Handlers |-> NoCall]
    /\ sent = [h \in Handlers |-> << >>]
    /\ audited = [h \in Handlers |-> << >>]
    /\ trail = [h \in Handlers |-> Trail(FALSE, "", FALSE, 0)]

NextAdapter == \E h \in Handlers : Execute(h) \/ AttemptAny(h)

SpecAdapter == InitAdapter /\ [][NextAdapter]_vars

(***************************************************************************)
(* The policy engine alone: both phases evaluated for any request.         *)
(***************************************************************************)
PolicyRequests ==
    { ActionRequest(environment, action, target, NilParams, FALSE, approvedBy, "", "", "", "") :
        environment \in {"home", ""}, action \in AnyActions,
        target \in AnyTargets, approvedBy \in AnyApprovedBy }

InitPolicy ==
    /\ authToken = "test-token"
    /\ auditTo = ""
    /\ clock = 0
    /\ records = [k \in {} |-> idempotencyRecord(hashActionRequest(ZeroRequest), 0, "", [none |-> TRUE])]
    /\ auditLog = << >>
    /\ execCalls = 0
    /\ pc = [h \in Handlers |-> IF h = 1 THEN "evaluate" ELSE "idle"]
    /\ httpReq = [h \in Handlers |-> NoRequest]
    /\ \E r \in PolicyRequests : req = [h \in Handlers |-> IF h = 1 THEN r ELSE ZeroRequest]
    /\ resp = [h \in Handlers |-> NoResponse]
    /\ planDecision = [h \in Handlers |-> ZeroDecision]
    /\ applyDecision = [h \in Handlers |-> ZeroDecision]
    /\ execOutcome = [h \in Handlers |-> NoOutcome]
    /\ call = [h \in Handlers |-> NoCall]
    /\ sent = [h \in Handlers |-> << >>]
    /\ audited = [h \in Handlers |-> << >>]
    /\ trail = [h \in Handlers |-> Trail(FALSE, "", FALSE, 0)]

\* Engine.EvaluateForPlan called on the request
PolicyPlan(h) ==
    /\ pc[h] = "evaluate"
    /\ planDecision' = [planDecision EXCEPT ![h] = EvaluateForPlan(req[h]).decision]
    /\ pc' = [pc EXCEPT ![h] = "evaluate_apply"]
    /\ UNCHANGED << serverVars, records, auditLog, execCalls, httpReq, req, resp,
                    applyDecision, execOutcome, call, sent, audited, trail >>

\* Engine.EvaluateForApply called on the request
PolicyApply(h) ==
    /\ pc[h] = "evaluate_apply"
    /\ applyDecision' = [applyDecision EXCEPT ![h] = EvaluateForApply(req[h]).decision]
    /\ pc' = [pc EXCEPT ![h] = "evaluated"]
    /\ UNCHANGED << serverVars, records, auditLog, execCalls, httpReq, req, resp,
                    planDecision, execOutcome, call, sent, audited, trail >>

NextPolicy == \E h \in Handlers : PolicyPlan(h) \/ PolicyApply(h)

SpecPolicy == InitPolicy /\ [][NextPolicy]_vars

(***************************************************************************)
(* The action runner alone: Plan or Apply called with any request.         *)
(***************************************************************************)
RunnerRequests ==
    { ActionRequest(environment, action, target, params, dryRun, approvedBy, "", "", "", "ops") :
        environment \in {"home", "", "lab"}, action \in AnyActions,
        target \in {"vm/101", "node1/101", ""},
        params \in { NilParams,
                     MapParams([endpoint |-> StrVal("/api2/json/cluster/firewall/options")]) },
        dryRun \in BOOLEAN, approvedBy \in AnyApprovedBy }

\* the call that reaches the runner with request r, for Plan or for Apply
direct(path, r) == post(path, "", JSONBody(r, FALSE, FALSE))

InitRunner ==
    /\ authToken = "test-token"
    /\ auditTo \in {"", AuditPath, UnwritablePath}
    /\ clock = 0
    /\ records = [k \in {} |-> idempotencyRecord(hashActionRequest(ZeroRequest), 0, "", [none |-> TRUE])]
    /\ auditLog = << >>
    /\ execCalls = 0
    /\ \E r \in RunnerRequests, path \in {PlanPath, ApplyPath} :
          /\ req = [h \in Handlers |-> IF h = 1 THEN r ELSE ZeroRequest]
          /\ httpReq = [h \in Handlers |-> IF h = 1 THEN direct(path, r) ELSE NoRequest]
          /\ pc = [h \in Handlers |-> IF h # 1 THEN "idle"
                                      ELSE IF path = PlanPath THEN "plan" ELSE "apply"]
    /\ resp = [h \in Handlers |-> NoResponse]
    /\ planDecision = [h \in Handlers |-> ZeroDecision]
    /\ applyDecision = [h \in Handlers |-> ZeroDecision]
    /\ execOutcome = [h \in Handlers |-> NoOutcome]
    /\ call = [h \in Handlers |-> NoCall]
    /\ sent = [h \in Handlers |-> << >>]
    /\ audited = [h \in Handlers |-> << >>]
    /\ trail = [h \in Handlers |-> Trail(FALSE, "", FALSE, 0)]

NextRunner ==
    \E h \in Handlers :
        \/ Plan(h)
        \/ ApplyGate(h)
        \/ Execute(h)
        \/ AttemptAny(h)
        \/ ApplyFinish(h)
        \/ StoreIdempotency(h)

SpecRunner == InitRunner /\ [][NextRunner]_vars

(***************************************************************************)
(* The action runner called several times, one call after another.         *)
(***************************************************************************)
Callers == 1..NumCalls

SeqRequests ==
    { ActionRequest("home", action, "vm/101", NilParams, FALSE, approvedBy, "", "", "", "ops") :
        action \in {ActionDeleteVM, ActionStartVM}, approvedBy \in {"", "ops-user"} }

InitSeq ==
    /\ authToken = "test-token"
    /\ auditTo \in {"", AuditPath, UnwritablePath}
    /\ clock = 0
    /\ records = [k \in {} |-> idempotencyRecord(hashActionRequest(ZeroRequest), 0, "", [none |-> TRUE])]
    /\ auditLog = << >>
    /\ execCalls = 0
    /\ req \in [Callers -> SeqRequests]
    /\ \E paths \in [Callers -> {PlanPath, ApplyPath}] :
          /\ httpReq = [h \in Callers |-> direct(paths[h], req[h])]
          /\ pc = [h \in Callers |-> IF paths[h] = PlanPath THEN "plan" ELSE "apply"]
    /\ resp = [h \in Callers |-> NoResponse]
    /\ planDecision = [h \in Callers |-> ZeroDecision]
    /\ applyDecision = [h \in Callers |-> ZeroDecision]
    /\ execOutcome = [h \in Callers |-> NoOutcome]
    /\ call = [h \in Callers |-> NoCall]
    /\ sent = [h \in Callers |-> << >>]
    /\ audited = [h \in Callers |-> << >>]
    /\ trail = [h \in Callers |-> Trail(FALSE, "", FALSE, 0)]

\* the calls before call h have returned
Turn(h) == \A g \in Callers : g < h => pc[g] = "done"

NextSeq ==
    \E h \in Callers :
        \/ Turn(h) /\ Plan(h)
        \/ Turn(h) /\ ApplyGate(h)
        \/ Turn(h) /\ Execute(h)
        \/ Turn(h) /\ Attempt(h)
        \/ Turn(h) /\ ApplyFinish(h)
        \/ Turn(h) /\ StoreIdempotency(h)

SpecSeq == InitSeq /\ [][NextSeq]_vars

(***************************************************************************)
(* Properties of the idempotency layer.                                    *)
(***************************************************************************)
\* the trimmed Idempotency-Key of the request handler h took
keyOf(h) == TrimSpace(httpReq[h].idemKey)

\* handlers a and b took admitted requests to the same endpoint with the same
\* non-blank Idempotency-Key and the same payload hash
Duplicates(a, b) ==
    /\ trail[a].admitted /\ trail[b].admitted
    /\ httpReq[a].path = httpReq[b].path
    /\ keyOf(a) # "" /\ keyOf(a) = keyOf(b)
    /\ hashActionRequest(req[a]) = hashActionRequest(req[b])

\* C1: when admitted requests to one endpoint with the same Idempotency-Key and
\* the same payload are handled one after another, every request after the first
\* calls no backend (no Execute, no round trip to the cluster) and its response
\* equals the first one's in status code, content type and body.
C1_SequentialReplay ==
    \A a, b \in Handlers :
        (a < b /\ pc[a] = "done" /\ pc[b] = "done" /\ Duplicates(a, b))
            => /\ trail[b].executed = 0
               /\ sent[b] = << >>
               /\ resp[b] = resp[a]

\* a second apply was answered from the record of a first one that executed
C1_Witness ==
    \E a, b \in Handlers :
        /\ a < b /\ pc[a] = "done" /\ pc[b] = "done" /\ Duplicates(a, b)
        /\ httpReq[a].path = ApplyPath
        /\ trail[a].executed = 1 /\ Len(sent[a]) = 1 /\ resp[a].status = 200
        /\ trail[b].gate = "replay"

\* C2: a request whose Idempotency-Key has a stored record on its endpoint with a
\* different payload hash is answered 409 at the idempotency gate and handled no
\* further: the store, the audit log and the count of backend calls are left as
\* they were, and such a request never executes, audits or stores anything.
C2_ConflictStep ==
    \A h \in Handlers :
        ( /\ pc[h] = "replay" /\ pc'[h] # "replay"
          /\ keyOf(h) # ""
          /\ storeHas(httpReq[h].path, keyOf(h))
          /\ storeGet(httpReq[h].path, keyOf(h)).payloadHash # hashActionRequest(req[h]) )
        => /\ resp'[h].status = 409
           /\ pc'[h] = "done"
           /\ records' = records
           /\ auditLog' = auditLog
           /\ execCalls' = execCalls
           /\ sent' = sent

C2_ConflictDone ==
    \A h \in Handlers :
        trail[h].gate = "conflict"
            => /\ pc[h] = "done"
               /\ resp[h].status = 409
               /\ trail[h].executed = 0 /\ sent[h] = << >> /\ audited[h] = << >>
               /\ ~trail[h].stored

C2_Conflict == []C2_ConflictDone /\ [][C2_ConflictStep]_vars

\* a request was refused with 409 while the record of another payload is stored
C2_Witness ==
    \E h \in Handlers :
        /\ trail[h].gate = "conflict" /\ resp[h].status = 409
        /\ storeHas(httpReq[h].path, keyOf(h))
        /\ storeGet(httpReq[h].path, keyOf(h)).payloadHash # hashActionRequest(req[h])

\* C3: once a record is stored for an (endpoint, key) pair, no step changes
\* its payload hash, whatever the interleaving of the handlers.
C3_HashImmutable ==
    [][\A k \in DOMAIN records :
            k \in DOMAIN records' /\ records'[k].payloadHash = records[k].payloadHash]_vars

\* C4: two apply requests with the same Idempotency-Key and the same payload,
\* handled by different handlers in any interleaving, call Execute at most once
\* in total.
C4_DuplicatesExecuteOnce ==
    \A a, b \in Handlers :
        (a # b /\ Duplicates(a, b) /\ httpReq[a].path = ApplyPath)
            => trail[a].executed + trail[b].executed <= 1

(***************************************************************************)
(* Properties of the action runner.                                        *)
(***************************************************************************)
ApprovalActions ==
    { ActionStopVM, ActionMigrateVM, ActionDeleteVM, ActionStorageEdit, ActionFirewallEdit }

DeniedMessage == "request denied by policy: approval required before apply"

\* handler h takes the step of Runner.Apply that evaluates the policy, for an
\* action that requires approval and an empty approved_by
DeniesNow(h) ==
    /\ pc[h] = "apply" /\ pc'[h] # "apply"
    /\ req[h].Action \in ApprovalActions
    /\ req[h].ApprovedBy = ""

\* the decision is the denial, the backend is not called, the answer is 403
DeniedUnexecuted(h) ==
    /\ ~applyDecision'[h].Allowed
    /\ applyDecision'[h].RequiresApproval
    /\ applyDecision'[h].Reason = "approval required before apply"
    /\ resp'[h].status = 403
    /\ pc'[h] = "store"
    /\ execCalls' = execCalls /\ sent' = sent /\ trail'[h].executed = 0

\* exactly one record, of kind apply_denied, is appended to the audit log
AppendsDenied(h) ==
    /\ Len(auditLog') = Len(auditLog) + 1
    /\ SubSeq(auditLog', 1, Len(auditLog)) = auditLog
    /\ auditLog'[Len(auditLog')] =
            auditRecord("apply_denied", req[h], applyDecision'[h], NoResult)

\* C5 as stated: such an apply is denied with the policy-denied error, is answered
\* 403, appends exactly one apply_denied record and does not call the backend.
C5_DeniedAlwaysAudited ==
    [][\A h \in Handlers :
            DeniesNow(h) => /\ DeniedUnexecuted(h)
                            /\ resp'[h] = httpError(DeniedMessage, 403)
                            /\ AppendsDenied(h)]_vars

\* C5 (amended): such an apply is denied (allowed=false, "approval required before
\* apply"), answered 403, and never calls the backend; with a writable audit path
\* exactly one apply_denied record is appended and the error is the policy denial;
\* with no audit path nothing is appended; when the audit write fails nothing is
\* appended and the error is the audit error.
C5_DeniedAuditedWhenConfigured ==
    [][\A h \in Handlers :
            DeniesNow(h) =>
                /\ DeniedUnexecuted(h)
                /\ CASE auditTo = "" ->
                            /\ auditLog' = auditLog
                            /\ resp'[h] = httpError(DeniedMessage, 403)
                     [] auditTo = UnwritablePath ->
                            /\ auditLog' = auditLog
                            /\ resp'[h] = httpError(AuditError, 403)
                     [] OTHER ->
                            /\ AppendsDenied(h)
                            /\ resp'[h] = httpError(DeniedMessage, 403)]_vars

\* an unapproved stop_vm was denied and audited
C5_Witness ==
    \E h \in Handlers :
        /\ pc[h] \in {"store", "done"}
        /\ httpReq[h].path = ApplyPath
        /\ req[h].Action = ActionStopVM /\ req[h].ApprovedBy = ""
        /\ resp[h] = httpError(DeniedMessage, 403)
        /\ Len(audited[h]) = 1 /\ audited[h][1].kind = "apply_denied"
        /\ auditLog = audited[h]
        /\ execCalls = 0

\* C6: an apply answered 200 that was not replayed from the store was admitted by
\* the validator, allowed by the policy engine in the apply phase, and its one
\* call of Execute returned without error.
C6_SuccessfulApply ==
    \A h \in Handlers :
        (httpReq[h].path = ApplyPath /\ resp[h].status = 200 /\ trail[h].gate # "replay")
            => /\ trail[h].admitted
               /\ ValidateActionRequest(req[h]) = ""
               /\ applyDecision[h].Allowed
               /\ EvaluateForApply(req[h]).decision.Allowed
               /\ trail[h].executed = 1
               /\ pc[h] \in {"store", "done"}
               /\ execOutcome[h].err = ""

\* an apply was answered 200 after a call to the cluster
C6_Witness ==
    \E h \in Handlers :
        /\ httpReq[h].path = ApplyPath /\ resp[h].status = 200
        /\ trail[h].gate = "proceed"
        /\ Len(sent[h]) = 1 /\ execOutcome[h].result.Status = "accepted"

\* handler h takes the step that is Runner.Plan
PlansNow(h) == pc[h] = "plan" /\ pc'[h] # "plan"

\* C7 as stated: Plan never calls the backend, and when it succeeds exactly one
\* record of kind plan has been appended to the audit log.
C7_PlanAlwaysAudited ==
    [][\A h \in Handlers :
            PlansNow(h) =>
                /\ execCalls' = execCalls /\ sent' = sent
                /\ resp'[h].status = 200 =>
                        auditLog' = Append(auditLog,
                            auditRecord("plan", req[h], planDecision'[h], NoResult))]_vars

\* C7 (amended): Plan never calls the backend; when it succeeds it has appended
\* exactly one record of kind plan if an audit path is configured and none if
\* not; when it fails it has appended nothing.
C7_PlanAuditedWhenConfigured ==
    [][\A h \in Handlers :
            PlansNow(h) =>
                /\ execCalls' = execCalls /\ sent' = sent /\ trail'[h].executed = 0
                /\ IF resp'[h].status = 200 /\ auditTo # ""
                   THEN auditLog' = Append(auditLog,
                            auditRecord("plan", req[h], planDecision'[h], NoResult))
                   ELSE auditLog' = auditLog]_vars

\* a plan of delete_vm without approval succeeded and left one plan record
C7_Witness ==
    \E h \in Handlers :
        /\ httpReq[h].path = PlanPath /\ resp[h].status = 200
        /\ req[h].Action = ActionDeleteVM /\ req[h].ApprovedBy = ""
        /\ planDecision[h].Allowed /\ planDecision[h].RequiresApproval
        /\ Len(auditLog) = 1 /\ auditLog[1].kind = "plan"
        /\ execCalls = 0

(***************************************************************************)
(* Properties of the policy engine.                                        *)
(***************************************************************************)
\* both phases were evaluated for a request with an environment and a target
Evaluated(h) == pc[h] = "evaluated" /\ req[h].Environment # "" /\ req[h].Target # ""

\* C8: for a request with a non-empty environment and target, the plan phase
\* allows it whatever the action and approved_by, plan and apply report the same
\* requires_approval, and the apply phase allows it exactly when no approval is
\* required or approved_by is non-empty.
C8_PlanAllowsApplyGates ==
    \A h \in Handlers :
        Evaluated(h) =>
            /\ EvaluateForPlan(req[h]).err = ""
            /\ planDecision[h].Allowed
            /\ planDecision[h].RequiresApproval = applyDecision[h].RequiresApproval
            /\ applyDecision[h].Allowed <=>
                    (~applyDecision[h].RequiresApproval \/ req[h].ApprovedBy # "")

\* delete_vm without approval: allowed in the plan phase, denied in the apply phase
C8_Witness ==
    \E h \in Handlers :
        /\ Evaluated(h)
        /\ req[h].Action = ActionDeleteVM /\ req[h].ApprovedBy = ""
        /\ planDecision[h].Allowed /\ planDecision[h].RequiresApproval
        /\ ~applyDecision[h].Allowed

\* the risk table of the specification: <<risk level, approval required>>
RiskTable(action) ==
    CASE action \in {ActionReadVM, ActionReadInventory, ActionReadTaskStatus, ActionReadTasks}
            -> << "low", FALSE >>
      [] action \in {ActionStartVM, ActionSnapshotVM, ActionCloneVM} -> << "medium", FALSE >>
      [] action = ActionStopVM -> << "medium", TRUE >>
      [] action \in {ActionMigrateVM, ActionDeleteVM, ActionStorageEdit, ActionFirewallEdit}
            -> << "high", TRUE >>

\* C9: for each of the 12 actions, both phases of the policy engine report the
\* risk level and the approval requirement of the risk table.
C9_RiskTable ==
    \A h \in Handlers :
        (Evaluated(h) /\ req[h].Action \in ValidatorActions) =>
            /\ planDecision[h].RiskLevel = RiskTable(req[h].Action)[1]
            /\ planDecision[h].RequiresApproval = RiskTable(req[h].Action)[2]
            /\ applyDecision[h].RiskLevel = RiskTable(req[h].Action)[1]
            /\ applyDecision[h].RequiresApproval = RiskTable(req[h].Action)[2]

(***************************************************************************)
(* Properties of the backend adapter.                                      *)
(***************************************************************************)
TransientAnswer(o) == o.kind = "transport" \/ (o.kind = "http" /\ o.status \in {502, 503, 504})

SuccessAnswer(o) == o.kind = "http" /\ o.status >= 200 /\ o.status < 300

\* a call that is not a GET is sent at most once, and exactly once when Execute
\* has returned; a GET is sent at most readRetries times, each attempt but the
\* last having met a transient failure
SendsBounded ==
    \A h \in Handlers :
        LET n == Len(sent[h])
        IN /\ n <= readRetries
           /\ \A i \in 1..n : sent[h][i].request.method = call[h].method
           /\ call[h].method # "GET" => n <= 1
           /\ (pc[h] = "executed" /\ call[h].method \notin {"", "GET"}) => n = 1
           /\ \A i \in 1..(n - 1) :
                    sent[h][i].request.method = "GET" /\ TransientAnswer(sent[h][i].answer)

\* handler h has just received answer o to an attempt
Answered(h, o) ==
    /\ pc[h] = "attempt"
    /\ Len(sent'[h]) = Len(sent[h]) + 1
    /\ sent'[h][Len(sent'[h])].answer = o

\* C10 as stated: a non-GET call is sent exactly once and never retried, a GET at
\* most N = 3 times, and Execute returns success as soon as an attempt is
\* answered with a 2xx status.
C10_SuccessOnAny2xx ==
    /\ []SendsBounded
    /\ [][\A h \in Handlers : \A o \in AnyNetOutcomes :
            (Answered(h, o) /\ SuccessAnswer(o))
                => (pc'[h] = "executed" /\ execOutcome'[h].err = "")]_vars

\* C10 (amended): a non-GET call is sent exactly once and never retried, a GET at
\* most N = 3 times; Execute returns as soon as an attempt is answered with a 2xx
\* status, with success when the body is empty or valid JSON and with a decode
\* error when it is not; an answer whose body cannot be read ends Execute with
\* an error, without a retry.
C10_ReturnsOnFirst2xx ==
    /\ []SendsBounded
    /\ [][\A h \in Handlers : \A o \in AnyNetOutcomes :
            /\ (Answered(h, o) /\ SuccessAnswer(o)) =>
                    /\ pc'[h] = "executed"
                    /\ execOutcome'[h].err = "" <=> (Len(o.body.raw) = 0 \/ o.body.valid)
            /\ (Answered(h, o) /\ o.kind = "read") =>
                    (pc'[h] = "executed" /\ execOutcome'[h].err # "")
            /\ (Answered(h, o) /\ pc'[h] = "executed" /\ execOutcome'[h].err = "")
                    => SuccessAnswer(o)]_vars

\* a read_vm succeeded on its third attempt, after two transient failures
C10_Witness ==
    \E h \in Handlers :
        /\ pc[h] = "executed" /\ execOutcome[h].err = ""
        /\ call[h].method = "GET" /\ Len(sent[h]) = readRetries
        /\ execOutcome[h].result.Status = "ok"
        /\ SuccessAnswer(sent[h][readRetries].answer)

ReadActions == {ActionReadVM, ActionReadInventory, ActionReadTaskStatus, ActionReadTasks}

\* C11: for every action other than the read_* actions, one Execute makes at
\* most one call to the cluster API, whatever the params, a params.method
\* override on storage_edit and firewall_edit included.
C11_MutationsSingleShot ==
    \A h \in Handlers :
        req[h].Action \notin ReadActions => Len(sent[h]) <= 1

\* C12: Execute of a request with dry_run=true returns status "planned" without
\* error and makes no network call, for every action, target and environment.
C12_DryRunPlanned ==
    \A h \in Handlers :
        req[h].DryRun =>
            /\ sent[h] = << >>
            /\ pc[h] # "attempt"
            /\ call[h] = NoCall
            /\ pc[h] = "executed" =>
                    /\ execOutcome[h].err = ""
                    /\ execOutcome[h].result.Status = "planned"

\* a dry run of an unsupported action in an environment that is not configured
C12_Witness ==
    \E h \in Handlers :
        /\ req[h].DryRun /\ pc[h] = "executed"
        /\ req[h].Environment \notin ConfiguredEnvironments
        /\ req[h].Action \notin ValidatorActions
        /\ execOutcome[h].result.Status = "planned"

\* C13: an apply with dry_run=true of an action that requires approval, with an
\* empty approved_by, is denied as the same request with dry_run=false is: the
\* same decision and error, the same audit write (an apply_denied record when
\* the audit path is writable), and Execute is not called.
C13_DryRunDenied ==
    [][\A h \in Handlers :
            (DeniesNow(h) /\ req[h].DryRun) =>
                LET wet == RunnerApplyGate([req[h] EXCEPT !.DryRun = FALSE])
                IN /\ DeniedUnexecuted(h)
                   /\ ~wet.execute
                   /\ applyDecision'[h] = wet.decision
                   /\ resp'[h] = httpError(wet.err, 403)
                   /\ Len(auditLog') = Len(wet.log)
                   /\ auditTo = AuditPath =>
                        (AppendsDenied(h) /\ auditLog'[Len(auditLog')].request.DryRun)]_vars

\* a dry-run delete_vm without approval was denied and audited
C13_Witness ==
    \E h \in Handlers :
        /\ pc[h] \in {"store", "done"}
        /\ httpReq[h].path = ApplyPath
        /\ req[h].DryRun /\ req[h].Action = ActionDeleteVM /\ req[h].ApprovedBy = ""
        /\ resp[h] = httpError(DeniedMessage, 403)
        /\ Len(auditLog) = 1 /\ auditLog[1].kind = "apply_denied"
        /\ auditLog[1].request.DryRun
        /\ execCalls = 0 /\ trail[h].executed = 0

(***************************************************************************)
(* Properties of the HTTP front-end.                                       *)
(***************************************************************************)
\* the request of handler h uses the method its endpoint serves
RightMethod(h) ==
    httpReq[h].method =
        (IF httpReq[h].path \in {InventoryPath, EnvironmentsPath} THEN "GET" ELSE "POST")

\* the Authorization header of the request of handler h carries the server token
TokenMatches(h) ==
    /\ HasPrefix(TrimSpace(httpReq[h].authorization), "Bearer ")
    /\ TrimSpace(TrimPrefix(TrimSpace(httpReq[h].authorization), "Bearer ")) = authToken

\* handler h answered with the status and went no further: no runner, no audit
\* record, no backend call, no read or write of the idempotency store
Turned(h, status) ==
    /\ pc[h] = "done"
    /\ resp[h].status = status
    /\ ~trail[h].admitted /\ trail[h].gate = "" /\ ~trail[h].stored
    /\ trail[h].executed = 0 /\ sent[h] = << >> /\ audited[h] = << >>
    /\ planDecision[h] = ZeroDecision /\ applyDecision[h] = ZeroDecision
    /\ DOMAIN records = {} /\ auditLog = << >> /\ execCalls = 0

\* C14: on /v1/environments, /v1/inventory, /v1/actions/plan and
\* /v1/actions/apply, a request with the endpoint's method is answered 503 when
\* the server token is not configured, and otherwise 401 when its bearer token
\* is missing or does not match; in both cases the runner is not invoked,
\* nothing is audited, the backend is not called and the idempotency store is
\* neither read nor written.
C14_AuthFirst ==
    \A h \in Handlers :
        (pc[h] # "idle" /\ RightMethod(h)
         /\ httpReq[h].path \in {EnvironmentsPath, InventoryPath, PlanPath, ApplyPath})
            => /\ authToken = "" => Turned(h, 503)
               /\ (authToken # "" /\ ~TokenMatches(h)) => Turned(h, 401)

\* an apply with a bearer token that is not the server's was answered 401
C14_Witness ==
    \E h \in Handlers :
        /\ httpReq[h].path = ApplyPath /\ httpReq[h].method = "POST"
        /\ httpReq[h].authorization = "Bearer nope"
        /\ authToken = "test-token"
        /\ Turned(h, 401)

\* the actor the front-end derives from the X-Actor-ID header
HeaderActor(h) ==
    IF TrimSpace(httpReq[h].actorID) = "" THEN "authenticated"
    ELSE TrimSpace(httpReq[h].actorID)

\* C15: the actor of every audit record is the value derived from the X-Actor-ID
\* header of the authenticated request ("authenticated" when it is absent); the
\* body cannot set it: a plan or apply body that carries an actor is rejected,
\* the body of an inventory request is not read, and the request written in the
\* record carries no actor.
C15_ActorFromHeader ==
    \A h \in Handlers :
        /\ \A i \in 1..Len(audited[h]) :
                /\ audited[h][i].actor = HeaderActor(h)
                /\ audited[h][i].request.Actor = ""
        /\ ( /\ pc[h] # "idle" /\ httpReq[h].path \in {PlanPath, ApplyPath}
              /\ httpReq[h].body.fields.Actor # "" ) => audited[h] = << >>
        /\ trail[h].admitted => req[h].Actor = HeaderActor(h)

\* an audit record carries the trimmed X-Actor-ID of its request
C15_Witness ==
    \E h \in Handlers :
        /\ httpReq[h].actorID = " ops " /\ httpReq[h].path = ApplyPath
        /\ Len(audited[h]) = 1 /\ audited[h][1].actor = "ops"
        /\ audited[h][1].kind = "apply"

\* C20: an authenticated POST to /v1/actions/plan or /v1/actions/apply whose body
\* has an unknown field, or content after the top-level object, is answered 400
\* "invalid JSON body" before validation; the runner is not invoked, nothing is
\* audited and nothing is stored under its Idempotency-Key.
C20_StrictDecode ==
    \A h \in Handlers :
        ( /\ pc[h] # "idle"
          /\ httpReq[h].path \in {PlanPath, ApplyPath} /\ httpReq[h].method = "POST"
          /\ authToken # "" /\ TokenMatches(h)
          /\ \/ httpReq[h].body.unknownField
             \/ httpReq[h].body.trailing
             \/ httpReq[h].body.fields.Actor # "" )
        => /\ Turned(h, 400)
           /\ resp[h] = httpError("invalid JSON body", 400)

\* a body with an unknown field, which validation would reject too, was refused
\* as invalid JSON
C20_Witness ==
    \E h \in Handlers :
        /\ httpReq[h].body.unknownField
        /\ ValidateActionRequest(decoded(httpReq[h].body)) # ""
        /\ httpReq[h].idemKey # ""
        /\ resp[h] = httpError("invalid JSON body", 400)
        /\ Turned(h, 400)

(***************************************************************************)
(* Properties of the audit log.                                            *)
(***************************************************************************)
\* the kinds of the records call h wrote, oldest first
KindsOf(h) == [i \in 1..Len(audited[h]) |-> audited[h][i].kind]

\* the records of calls 1..n, in the order of the calls
RECURSIVE WrittenUpTo(_)
WrittenUpTo(n) == IF n = 0 THEN << >> ELSE WrittenUpTo(n - 1) \o audited[n]

\* call h has returned from Runner.Plan or Runner.Apply
Returned(h) == pc[h] \in {"store", "done"}

\* C16: a record of kind apply is written only after Execute returned without
\* error; when Execute fails, Apply returns the adapter's error and writes no
\* record; the log holds the records of the calls in the order of the calls, so
\* that, with a writable audit path, a Plan, a denied Apply and an approved Apply
\* leave plan, apply_denied, apply in that order.
C16_ApplyAuditedAfterSuccess ==
    /\ auditLog = WrittenUpTo(NumCalls)
    /\ \A h \in Callers :
        /\ (\E i \in 1..Len(audited[h]) : audited[h][i].kind = "apply")
                => /\ trail[h].executed = 1 /\ execOutcome[h].err = ""
                   /\ Returned(h) /\ applyDecision[h].Allowed
                   /\ audited[h][1].result = SomeResult(execOutcome[h].result)
        /\ (Returned(h) /\ trail[h].executed = 1 /\ execOutcome[h].err # "")
                => /\ resp[h] = httpError(execOutcome[h].err, 403)
                   /\ audited[h] = << >>
        /\ (Returned(h) /\ auditTo = AuditPath) =>
                KindsOf(h) =
                    IF httpReq[h].path = PlanPath THEN << "plan" >>
                    ELSE IF ~applyDecision[h].Allowed THEN << "apply_denied" >>
                    ELSE IF execOutcome[h].err = "" THEN << "apply" >>
                    ELSE << >>

\* a Plan, a denied Apply and an approved Apply of delete_vm, in that order, left
\* the records plan, apply_denied, apply and one call of Execute
C16_Witness ==
    /\ \A h \in Callers : pc[h] = "done" /\ req[h].Action = ActionDeleteVM
    /\ httpReq[1].path = PlanPath /\ req[1].ApprovedBy = ""
    /\ httpReq[2].path = ApplyPath /\ req[2].ApprovedBy = ""
    /\ httpReq[3].path = ApplyPath /\ req[3].ApprovedBy = "ops-user"
    /\ [i \in 1..Len(auditLog) |-> auditLog[i].kind] = << "plan", "apply_denied", "apply" >>
    /\ execCalls = 1

AuditKinds == {"plan", "apply_denied", "apply"}

\* C17: the audit log is append-only: every step leaves it unchanged or appends
\* exactly one whole record at its end; no record written is modified, moved or
\* removed.
C17_AppendOnly ==
    [][\/ auditLog' = auditLog
       \/ /\ Len(auditLog') = Len(auditLog) + 1
          /\ SubSeq(auditLog', 1, Len(auditLog)) = auditLog
          /\ auditLog'[Len(auditLog')].kind \in AuditKinds
          /\ \E h \in Handlers :
                /\ audited'[h] = Append(audited[h], auditLog'[Len(auditLog')])
                /\ auditLog'[Len(auditLog')].request = wire(req[h])]_vars

\* a second record was appended behind the first, which kept its place
C17_Witness ==
    /\ Len(auditLog) = 2
    /\ audited[1] = << auditLog[1] >> /\ auditLog[1].kind = "plan"
    /\ audited[2] = << auditLog[2] >> /\ auditLog[2].kind = "apply"

\* log is an interleaving of the sequences written[h], each kept whole and in order
RECURSIVE IsMerge(_, _)
IsMerge(log, written) ==
    IF log = << >> THEN \A h \in DOMAIN written : written[h] = << >>
    ELSE \E h \in DOMAIN written :
            /\ written[h] # << >>
            /\ written[h][Len(written[h])] = log[Len(log)]
            /\ IsMerge(SubSeq(log, 1, Len(log) - 1),
                       [written EXCEPT ![h] = SubSeq(@, 1, Len(@) - 1)])

C19_UpstreamFailureStatus ==
    \A h \in Handlers :
        (Returned(h) /\ httpReq[h].path \in {ApplyPath, InventoryPath}
         /\ trail[h].gate = "proceed")
            => /\ (trail[h].executed = 1 /\ sent[h] # << >> /\ execOutcome[h].err # "")
                    => resp[h].status \in {502, 504}
               /\ resp[h].status = 403 => ~applyDecision[h].Allowed

(***************************************************************************)
(* The validator alone: ValidateActionRequest called on any request, as    *)
(* Server.plan and Server.apply call it on the decoded body.               *)
(***************************************************************************)
ValidatorTargets ==
    { "vm/101", "vm/0", "vm/", "vm/abc", "vm/10a", "vm/101\n", " vm/101", "VM/101",
      "vm/101/x", "node1/101", "101", "", " ",
      "inventory/all", "inventory/running", "inventory/stopped", "inventory/",
      "task/status", "task/list", "task/lists", "task/status/1",
      "storage/local-lvm", "storage/nfs_1.a:b", "storage/", "storage/local lvm",
      "storage/a/b", "storage/local@lvm",
      "firewall/cluster", "firewall/node/pve-1.a_b", "firewall/vm/101", "firewall/",
      "firewall/node/", "firewall/node/pve:1", "firewall/vm/abc", "firewall/cluster/x",
      "firewall/vm/", "firewall/host/pve1" }

\* approved_by, approval_ticket, reason, expires_at as a body carries them
ValidatorApprovals ==
    { << approvedBy, "", "", "" >> :
        approvedBy \in {"", "  ", "ops-user", " ops-user ", "a@b/c:d", "ab", "bad approver", "ops!"} }
    \cup { << approvedBy, ticket, "", "" >> :
        approvedBy \in {"", "  ", "ops-user"},
        ticket \in {"  ", "CHG-2026-001", "ab", "bad ticket !", "CHG@1"} }
    \cup { << approvedBy, "", reason, "" >> :
        approvedBy \in {"", "  ", "ops-user"},
        reason \in {"  ", "approved by on-call lead", "short", "12345678", "  short  "} }
    \cup { << approvedBy, "", "", expiresAt >> :
        approvedBy \in {"", "  ", "ops-user"},
        expiresAt \in {"  ", "2026-02-16T12:00:00Z", "tomorrow", "2026-13-16T12:00:00Z",
                       "2026-02-16 12:00:00", " 2026-02-16T12:00:00Z "} }
    \cup { << "ops-user", "CHG-2026-001", "approved by on-call lead", "2026-02-16T12:00:00Z" >>,
           << "", "CHG-2026-001", "approved by on-call lead", "2026-02-16T12:00:00Z" >> }

ValidatorRequests ==
    { ActionRequest(environment, action, target, NilParams, FALSE, "", "", "", "", "") :
        environment \in {"home", "cloud", "lab", "", " ", "Home"},
        action \in ValidatorActions \cup {"reboot_vm", "", " ", "START_VM"},
        target \in ValidatorTargets }
    \cup
    { ActionRequest("home", action, target, NilParams, FALSE, a[1], a[2], a[3], a[4], "") :
        action \in {ActionDeleteVM, ActionReadVM}, target \in {"vm/101", "vm/"},
        a \in ValidatorApprovals }

InitValidator ==
    /\ authToken = "test-token"
    /\ auditTo = ""
    /\ clock = 0
    /\ records = [k \in {} |-> idempotencyRecord(hashActionRequest(ZeroRequest), 0, "", [none |-> TRUE])]
    /\ auditLog = << >>
    /\ execCalls = 0
    /\ pc = [h \in Handlers |-> IF h = 1 THEN "validate" ELSE "idle"]
    /\ httpReq = [h \in Handlers |-> NoRequest]
    /\ \E r \in ValidatorRequests : req = [h \in Handlers |-> IF h = 1 THEN r ELSE ZeroRequest]
    /\ resp = [h \in Handlers |-> NoResponse]
    /\ planDecision = [h \in Handlers |-> ZeroDecision]
    /\ applyDecision = [h \in Handlers |-> ZeroDecision]
    /\ execOutcome = [h \in Handlers |-> NoOutcome]
    /\ call = [h \in Handlers |-> NoCall]
    /\ sent = [h \in Handlers |-> << >>]
    /\ audited = [h \in Handlers |-> << >>]
    /\ trail = [h \in Handlers |-> Trail(FALSE, "", FALSE, 0)]

\* s.validator.ValidateActionRequest(req) and the http.Error that follows an error
Validate(h) ==
    /\ pc[h] = "validate"
    /\ LET err == ValidateActionRequest(req[h])
       IN IF err # ""
          THEN /\ resp' = [resp EXCEPT ![h] = httpError(err, 400)]
               /\ pc' = [pc EXCEPT ![h] = "done"]
               /\ trail' = trail
          ELSE /\ resp' = resp
               /\ pc' = [pc EXCEPT ![h] = "admitted"]
               /\ trail' = [trail EXCEPT ![h].admitted = TRUE]
    /\ UNCHANGED << serverVars, records, auditLog, execCalls, httpReq, req, planDecision,
                    applyDecision, execOutcome, call, sent, audited >>

NextValidator == \E h \in Handlers : Validate(h)

SpecValidator == InitValidator /\ [][NextValidator]_vars

(***************************************************************************)
(* Claims about the validator.                                             *)
(***************************************************************************)
TwelveActions ==
    { "read_vm", "read_inventory", "read_task_status", "read_tasks", "start_vm", "stop_vm",
      "snapshot_vm", "clone_vm", "migrate_vm", "delete_vm", "storage_edit", "firewall_edit" }

\* the targets among ValidatorTargets that the grammar of the action holds
GrammarTargets(action) ==
    CASE action \in { "read_vm", "start_vm", "stop_vm", "snapshot_vm", "clone_vm",
                      "migrate_vm", "delete_vm" } -> {"vm/101", "vm/0"}
      [] action = "read_inventory" -> {"inventory/all", "inventory/running"}
      [] action = "read_task_status" -> {"task/status"}
      [] action = "read_tasks" -> {"task/list"}
      [] action = "storage_edit" -> {"storage/local-lvm", "storage/nfs_1.a:b"}
      [] action = "firewall_edit" ->
            {"firewall/cluster", "firewall/node/pve-1.a_b", "firewall/vm/101"}
      [] OTHER -> {}

\* a field of the approval metadata counts as set when it is more than blanks
IsSet(value) == value \notin {"", " ", "  "}

\* the approval metadata among ValidatorApprovals that is well-formed, each
\* value taken without the blanks around it
WellFormedApproval(r) ==
    /\ IsSet(r.ApprovedBy) => r.ApprovedBy \in {"ops-user", " ops-user ", "a@b/c:d"}
    /\ IsSet(r.ApprovalTicket) => r.ApprovalTicket = "CHG-2026-001"
    /\ IsSet(r.Reason) => r.Reason \in {"approved by on-call lead", "12345678"}
    /\ IsSet(r.ExpiresAt) => r.ExpiresAt \in {"2026-02-16T12:00:00Z", " 2026-02-16T12:00:00Z "}
    /\ (IsSet(r.ApprovalTicket) \/ IsSet(r.Reason) \/ IsSet(r.ExpiresAt)) => IsSet(r.ApprovedBy)

Validated(h) == pc[h] \in {"admitted", "done"} /\ req[h] # ZeroRequest

C22_MetadataNeedsApprover ==
    \A h \in Handlers :
        ( /\ Validated(h)
          /\ IsSet(req[h].ApprovalTicket) \/ IsSet(req[h].Reason) \/ IsSet(req[h].ExpiresAt)
          /\ ~IsSet(req[h].ApprovedBy) )
            => ~trail[h].admitted /\ resp[h].status = 400

\* a well-formed ticket without an approver was rejected for that reason
C22_Witness ==
    \E h \in Handlers :
        /\ Validated(h) /\ ~trail[h].admitted
        /\ req[h].ApprovalTicket = "CHG-2026-001" /\ req[h].ApprovedBy = ""
        /\ req[h].Reason = "" /\ req[h].ExpiresAt = "" /\ req[h].Target = "vm/101"
        /\ resp[h] = httpError("approved_by is required when approval metadata is provided", 400)

(***************************************************************************)
(* Claims about the translation of a request to a cluster API call.        *)
(***************************************************************************)
VMActions ==
    { ActionReadVM, ActionStartVM, ActionStopVM, ActionSnapshotVM, ActionCloneVM,
      ActionMigrateVM, ActionDeleteVM }

\* Execute has gone past the dry-run and environment checks of request h
Translates(h) ==
    /\ pc[h] \in {"attempt", "executed"}
    /\ ~req[h].DryRun
    /\ req[h].Environment \in ConfiguredEnvironments

HasNodeParam(h) ==
    ~req[h].Params.isNil /\ "node" \in DOMAIN req[h].Params.kv
        /\ req[h].Params.kv["node"].t = "string"

\* C23: for a VM action on a target vm/<id> the call goes to
\* /api2/json/nodes/{node}/qemu/{id}... with {node} taken from params.node; on a
\* legacy target node/vmid the node is the first component of the target.
C23_NodeFromParams ==
    \A h \in Handlers :
        (Translates(h) /\ req[h].Action \in VMActions) =>
            /\ (vmTargetPattern(req[h].Target) /\ HasNodeParam(h)) =>
                    HasPrefix(call[h].endpoint,
                              "/api2/json/nodes/" \o req[h].Params.kv["node"].v \o "/qemu/"
                                  \o SubSeq(req[h].Target, 4, Len(req[h].Target)))
            /\ req[h].Target = "node1/200" =>
                    HasPrefix(call[h].endpoint, "/api2/json/nodes/node1/qemu/200")

\* C24: for each of the twelve actions the validator admits, a non-dry-run
\* Execute of an admitted request translates it to a method and an endpoint
\* and never fails with an unsupported-action error.
C24_EveryActionTranslated ==
    \A h \in Handlers :
        ( /\ trail[h].admitted /\ req[h].Action \in ValidatorActions
          /\ trail[h].executed = 1 /\ pc[h] # "execute"
          /\ ~req[h].DryRun )
            => /\ ~HasPrefix(execOutcome[h].err, "unsupported action")
               /\ call[h].method # "" /\ call[h].endpoint # ""

(***************************************************************************)
(* The canonical hasher on bodies as they are written: a body is a JSON    *)
(* object, its members in the order of the text; the server decodes it     *)
(* into an ActionRequest and stores the hash of the request under the key. *)
(***************************************************************************)
Member(key, value) == << key, value >>

\* a JSON object as written: its members in their order
ObjectText(members) == [ t |-> "members", v |-> members ]

HasMember(members, key) == \E i \in 1..Len(members) : members[i][1] = key

\* the value of the last member with the key (encoding/json keeps the last)
MemberValue(members, key) ==
    members[CHOOSE i \in 1..Len(members) :
                /\ members[i][1] = key
                /\ \A j \in (i + 1)..Len(members) : members[j][1] # key][2]

\* json.Unmarshal of a value into any: an object becomes a map[string]any
RECURSIVE decodeValue(_)
decodeValue(val) ==
    IF val.t = "members"
    THEN [ t |-> "object",
           v |-> [k \in {val.v[i][1] : i \in 1..Len(val.v)} |->
                    decodeValue(MemberValue(val.v, k))] ]
    ELSE val

stringMember(members, key) ==
    IF HasMember(members, key) /\ MemberValue(members, key).t = "string"
    THEN MemberValue(members, key).v ELSE ""

\* json.Decoder.Decode of the body into a proxmox.ActionRequest
decodeDocument(members) ==
    ActionRequest(stringMember(members, "environment"), stringMember(members, "action"),
                  stringMember(members, "target"),
                  IF HasMember(members, "params") /\ MemberValue(members, "params").t = "members"
                  THEN MapParams(decodeValue(MemberValue(members, "params")).v)
                  ELSE NilParams,
                  HasMember(members, "dry_run") /\ MemberValue(members, "dry_run") = BoolVal(TRUE),
                  stringMember(members, "approved_by"), stringMember(members, "approval_ticket"),
                  stringMember(members, "reason"), stringMember(members, "expires_at"), "")

\* a body given by its text
JSONDocument(members) ==
    [ fields |-> decodeDocument(members), unknownField |-> FALSE, trailing |-> FALSE,
      document |-> members ]

\* bodies of one storage_edit: the members of params and of the objects in it
\* in several orders, with other values, with and without approval fields
HashDocuments ==
    LET endpoint == Member("endpoint", StrVal("/api2/json/storage/local-lvm"))
        head == << Member("environment", StrVal("home")),
                   Member("action", StrVal(ActionStorageEdit)),
                   Member("target", StrVal("storage/local-lvm")) >>
        nodes(first, second) == ObjectText(<< first, second >>)
        paramsTexts ==
            { << endpoint, Member("content", StrVal("images")), Member("shared", BoolVal(TRUE)) >>,
              << Member("shared", BoolVal(TRUE)), Member("content", StrVal("images")), endpoint >>,
              << Member("content", StrVal("iso")), endpoint, Member("shared", BoolVal(TRUE)) >>,
              << endpoint,
                 Member("options", ObjectText(<< Member("maxfiles", StrVal("3")),
                    Member("Nodes", nodes(Member("a", BoolVal(TRUE)), Member("b", BoolVal(FALSE)))) >>)) >>,
              << Member("options", ObjectText(<<
                    Member("Nodes", nodes(Member("b", BoolVal(FALSE)), Member("a", BoolVal(TRUE)))),
                    Member("maxfiles", StrVal("3")) >>)),
                 endpoint >> }
        tails ==
            { << >>,
              << Member("approved_by", StrVal("")), Member("approval_ticket", StrVal("")),
                 Member("reason", StrVal("")), Member("expires_at", StrVal("")) >>,
              << Member("approved_by", StrVal("ops-user")) >>,
              << Member("approved_by", StrVal("ops-user")), Member("reason", StrVal("")),
                 Member("approval_ticket", StrVal("")) >> }
    IN { head \o << Member("params", ObjectText(params)) >> \o tail :
            params \in paramsTexts, tail \in tails }

InitHash ==
    /\ authToken = "test-token"
    /\ auditTo = ""
    /\ clock = 0
    /\ records = [k \in {} |-> idempotencyRecord(hashActionRequest(ZeroRequest), 0, "", [none |-> TRUE])]
    /\ auditLog = << >>
    /\ execCalls = 0
    /\ pc = [h \in Handlers |-> "decode"]
    /\ \E d \in [Handlers -> HashDocuments] :
            httpReq = [h \in Handlers |->
                            post(ApplyPath, "hash-key-" \o Ch("123456789", h),
                                 JSONDocument(d[h]))]
    /\ req = [h \in Handlers |-> ZeroRequest]
    /\ resp = [h \in Handlers |-> NoResponse]
    /\ planDecision = [h \in Handlers |-> ZeroDecision]
    /\ applyDecision = [h \in Handlers |-> ZeroDecision]
    /\ execOutcome = [h \in Handlers |-> NoOutcome]
    /\ call = [h \in Handlers |-> NoCall]
    /\ sent = [h \in Handlers |-> << >>]
    /\ audited = [h \in Handlers |-> << >>]
    /\ trail = [h \in Handlers |-> Trail(FALSE, "", FALSE, 0)]

\* the JSON text of a value as the body holds it
RECURSIVE textOfValue(_)
RECURSIVE textOfMembers(_)
textOfMembers(members) ==
    IF members = << >> THEN ""
    ELSE Quote(members[1][1]) \o ":" \o textOfValue(members[1][2])
            \o (IF Len(members) > 1 THEN "," ELSE "")
            \o textOfMembers(SubSeq(members, 2, Len(members)))

textOfValue(val) ==
    CASE val.t = "members" -> "{" \o textOfMembers(val.v) \o "}"
      [] val.t = "string" -> Quote(val.v)
      [] val.t = "bool" -> val.v
      [] OTHER -> "null"

HashBodyAsReceived(h) ==
    /\ pc[h] = "decode"
    /\ req' = [req EXCEPT ![h] = decodeDocument(httpReq[h].body.document)]
    /\ records' = storePut(httpReq[h].path, TrimSpace(httpReq[h].idemKey),
                    idempotencyRecord("{" \o textOfMembers(httpReq[h].body.document) \o "}",
                                      200, "application/json", [none |-> TRUE]))
    /\ pc' = [pc EXCEPT ![h] = "done"]
    /\ trail' = [trail EXCEPT ![h].stored = TRUE]
    /\ UNCHANGED << serverVars, auditLog, execCalls, httpReq, resp, planDecision,
                    applyDecision, execOutcome, call, sent, audited >>

\* decodeStrictJSON of the body, then storeIdempotencyResponse: the hash of the
\* decoded request is put under the key
HashBody(h) ==
    /\ pc[h] = "decode"
    /\ req' = [req EXCEPT ![h] = decodeDocument(httpReq[h].body.document)]
    /\ records' = storePut(httpReq[h].path, TrimSpace(httpReq[h].idemKey),
                    idempotencyRecord(hashActionRequest(decodeDocument(httpReq[h].body.document)),
                                      200, "application/json", [none |-> TRUE]))
    /\ pc' = [pc EXCEPT ![h] = "done"]
    /\ trail' = [trail EXCEPT ![h].stored = TRUE]
    /\ UNCHANGED << serverVars, auditLog, execCalls, httpReq, resp, planDecision,
                    applyDecision, execOutcome, call, sent, audited >>

NextHash == \E h \in Handlers : HashBody(h)

SpecHash == InitHash /\ [][NextHash]_vars

(***************************************************************************)
(* Claims about the canonical hasher.                                      *)
(***************************************************************************)
MemberKeys(members) == {members[i][1] : i \in 1..Len(members)}

\* two values as written that differ at most in the order of the members of
\* their objects, at any depth
RECURSIVE SameUpToOrder(_, _)
SameUpToOrder(a, b) ==
    IF a.t = "members" /\ b.t = "members"
    THEN /\ Len(a.v) = Len(b.v)
         /\ MemberKeys(a.v) = MemberKeys(b.v)
         /\ Cardinality(MemberKeys(a.v)) = Len(a.v)
         /\ \A k \in MemberKeys(a.v) :
                SameUpToOrder(MemberValue(a.v, k), MemberValue(b.v, k))
    ELSE a = b

ApprovalFields == {"approved_by", "approval_ticket", "reason", "expires_at"}

\* the members of a body without its approval fields that are empty
RECURSIVE WithoutEmptyApproval(_)
WithoutEmptyApproval(members) ==
    IF members = << >> THEN << >>
    ELSE (IF members[1][1] \in ApprovalFields /\ members[1][2] = StrVal("")
          THEN << >> ELSE << members[1] >>)
            \o WithoutEmptyApproval(SubSeq(members, 2, Len(members)))

\* two bodies that differ only in the order of keys or in empty approval fields
SameRequestText(a, b) ==
    SameUpToOrder(ObjectText(WithoutEmptyApproval(a)), ObjectText(WithoutEmptyApproval(b)))

HashOf(h) == storeGet(httpReq[h].path, TrimSpace(httpReq[h].idemKey)).payloadHash

\* C25: two requests whose bodies differ only in the order in which the keys
\* of params are written, at any depth, or only in whether an approval field
\* is left out or given empty, have the same hash.
C25_HashDeterministic ==
    \A a, b \in Handlers :
        ( /\ pc[a] = "done" /\ pc[b] = "done"
          /\ SameRequestText(httpReq[a].body.document, httpReq[b].body.document) )
            => HashOf(a) = HashOf(b)

\* two bodies, one with the keys of params and of its objects in another order
\* and with empty approval fields, were given the same hash
C25_Witness ==
    /\ pc[1] = "done" /\ pc[2] = "done"
    /\ httpReq[1].body.document # httpReq[2].body.document
    /\ HasMember(httpReq[1].body.document, "reason")
    /\ ~HasMember(httpReq[2].body.document, "approved_by")
    /\ HasMember(MemberValue(httpReq[1].body.document, "params").v, "options")
    /\ MemberValue(httpReq[1].body.document, "params").v[1]
            # MemberValue(httpReq[2].body.document, "params").v[1]
    /\ SameRequestText(httpReq[1].body.document, httpReq[2].body.document)
    /\ HashOf(1) = HashOf(2)

\* bodies that differ in a value were given different hashes
C25_Distinguishes ==
    \A a, b \in Handlers :
        ( /\ pc[a] = "done" /\ pc[b] = "done"
          /\ ~SameRequestText(httpReq[a].body.document, httpReq[b].body.document) )
            => HashOf(a) # HashOf(b)

(***************************************************************************)
(* The server with time passing: a first request is served, then time      *)
(* passes, then a second request arrives.                                  *)
(***************************************************************************)
\* the retention period of an idempotency record, in ticks
TTLTicks == 2

\* time passes between the end of the first request and the arrival of the second
Tick ==
    /\ pc[1] = "done" /\ pc[2] = "idle"
    /\ clock < TTLTicks
    /\ clock' = clock + 1
    /\ UNCHANGED << authToken, auditTo, records, auditLog, execCalls, pc, httpReq, req, resp,
                    planDecision, applyDecision, execOutcome, call, sent, audited, trail >>

NextExpiry ==
    \/ Tick
    \/ \E h \in Handlers :
        \/ Receive(h)
        \/ TryReplay(h)
        \/ Plan(h)
        \/ ApplyGate(h)
        \/ Execute(h)
        \/ Attempt(h)
        \/ ApplyFinish(h)
        \/ StoreIdempotency(h)

SpecExpiry == Init /\ [][NextExpiry]_vars

\* C26: once the retention period of a record has passed, a request with the
\* same endpoint and key is a miss: it is handled afresh and is neither
\* answered from the record nor refused as a conflict.
C26_ExpiredIsMiss ==
    ( /\ clock = TTLTicks
      /\ trail[1].stored /\ trail[2].admitted /\ trail[2].gate # ""
      /\ httpReq[1].path = httpReq[2].path
      /\ keyOf(1) # "" /\ keyOf(1) = keyOf(2) )
        => trail[2].gate = "proceed"

(***************************************************************************)
(* The server with callers of two identities.                              *)
(***************************************************************************)
ActorRequests ==
    { HTTPRequest("POST", ApplyPath, GoodAuth, actorID, "apply-key-1",
                  actionBody(ActionStartVM, target, "", FALSE), NoQuery) :
        actorID \in {"agent-a", "agent-b"}, target \in {"vm/101", "vm/102"} }

ReceiveActor(h) == pc[h] = "idle" /\ \E r \in ActorRequests : Serve(h, r)

NextActors ==
    \E h \in Handlers :
        \/ ReceiveActor(h)
        \/ TryReplay(h)
        \/ ApplyGate(h)
        \/ Execute(h)
        \/ Attempt(h)
        \/ ApplyFinish(h)
        \/ StoreIdempotency(h)

SpecActors == Init /\ [][NextActors]_vars

(***************************************************************************)
(* Claims about the scope and the writing of idempotency records.          *)
(***************************************************************************)
\* handler h was answered from the store or refused by it
MetRecord(h) == trail[h].gate \in {"replay", "conflict"}

\* C27: idempotency keys are scoped by endpoint path: a request bearing key K
\* is answered from the store, or refused as a conflict, only when a request
\* to the same endpoint stored a record under K; a record stored for K on the
\* plan endpoint is never met by a request bearing K on the apply endpoint, nor
\* the converse, and two different (endpoint, key) pairs never share an entry.
C27_ScopedByEndpoint ==
    /\ \A b \in Handlers :
            MetRecord(b) =>
                \E a \in Handlers \ {b} :
                    /\ trail[a].stored
                    /\ httpReq[a].path = httpReq[b].path /\ keyOf(a) = keyOf(b)
    /\ \A a, b \in Handlers :
            (trail[a].stored /\ trail[b].stored
                /\ storeKey(httpReq[a].path, keyOf(a)) = storeKey(httpReq[b].path, keyOf(b)))
                    => httpReq[a].path = httpReq[b].path /\ keyOf(a) = keyOf(b)
    /\ \A a, b \in Handlers :
            (trail[a].stored /\ trail[b].stored /\ keyOf(a) = keyOf(b)
                /\ httpReq[a].path # httpReq[b].path)
                    => Cardinality(DOMAIN records) >= 2

\* a plan and an apply of the same payload under the same key were both
\* handled afresh and both stored, the second with the first's record in place
C27_Witness ==
    \E a, b \in Handlers :
        /\ a < b /\ httpReq[a].path = PlanPath /\ httpReq[b].path = ApplyPath
        /\ keyOf(a) = "apply-key-1" /\ keyOf(b) = "apply-key-1"
        /\ hashActionRequest(req[a]) = hashActionRequest(req[b])
        /\ trail[a].stored /\ trail[b].stored
        /\ trail[a].gate = "proceed" /\ trail[b].gate = "proceed"
        /\ Cardinality(DOMAIN records) = 2

\* C28: idempotency keys are scoped to the caller as well: a request is
\* answered from the store, or refused as a conflict, only on a record that a
\* request of the same actor stored.
C28_ScopedByActor ==
    \A b \in Handlers :
        MetRecord(b) =>
            \E a \in Handlers \ {b} :
                /\ trail[a].stored
                /\ httpReq[a].path = httpReq[b].path /\ keyOf(a) = keyOf(b)
                /\ req[a].Actor = req[b].Actor

\* C29: on a miss the response is stored under the key before it is written to
\* the client: whenever the response of a request bearing key K has been
\* written, the store holds a record for (endpoint, K).
C29_StoredBeforeReturned ==
    \A h \in Handlers :
        (trail[h].gate = "proceed" /\ keyOf(h) # "" /\ resp[h] # NoResponse)
            => storeHas(httpReq[h].path, keyOf(h))

\* C30: after an apply under key K ended in an error response of the runner (a
\* denial by the policy or a failure of the backend), an identical request
\* under K that is handled next gets the same error response, with no policy
\* evaluation, no backend call and no audit record of its own.
C30_ErrorOutcomeReplayed ==
    \A a, b \in Handlers :
        ( /\ a < b /\ pc[a] = "done" /\ pc[b] = "done" /\ Duplicates(a, b)
          /\ httpReq[a].path = ApplyPath
          /\ trail[a].gate = "proceed" /\ resp[a].status >= 400 )
            => /\ trail[b].gate = "replay"
               /\ resp[b] = resp[a]
               /\ applyDecision[b] = ZeroDecision
               /\ trail[b].executed = 0 /\ sent[b] = << >>
               /\ audited[b] = << >>
               /\ records[storeKey(ApplyPath, keyOf(a))].statusCode = resp[a].status

\* the denial of a first apply, audited once, came back for the second
C30_Witness ==
    \E a, b \in Handlers :
        /\ a < b /\ pc[a] = "done" /\ pc[b] = "done" /\ Duplicates(a, b)
        /\ httpReq[a].path = ApplyPath
        /\ ~applyDecision[a].Allowed /\ resp[a].status = 403
        /\ trail[b].gate = "replay" /\ resp[b] = resp[a]
        /\ Len(auditLog) = 1 /\ auditLog[1].kind = "apply_denied"

(***************************************************************************)
(* Plan-first flow.                                                        *)
(***************************************************************************)
\* Runner.Plan returned a decision for the request of handler g
Planned(g) == planDecision[g] # ZeroDecision

\* C31: every request is planned before it is executed: whenever Execute has
\* been called for an action that changes state, a plan of the same request
\* (the plan-phase evaluation, with its plan record when an audit file is
\* configured) has occurred.
C31_PlannedBeforeExecuted ==
    \A h \in Handlers :
        (trail[h].executed > 0 /\ req[h].Action \notin ReadActions) =>
            \E g \in Handlers :
                /\ Planned(g) /\ wire(req[g]) = wire(req[h])
                /\ auditTo = AuditPath =>
                        \E i \in 1..Len(auditLog) :
                            /\ auditLog[i].kind = "plan"
                            /\ auditLog[i].request = wire(req[h])

(***************************************************************************)
(* Credential isolation: concurrent calls of Execute for requests that     *)
(* name different environments.                                            *)
(***************************************************************************)
IsolationRequests ==
    { ActionRequest("home", ActionStartVM, "node1/101", NilParams, FALSE, "", "", "", "", ""),
      ActionRequest("cloud", ActionStartVM, "node1/101", NilParams, FALSE, "", "", "", "", ""),
      ActionRequest("lab", ActionStartVM, "node1/101", NilParams, FALSE, "", "", "", "", ""),
      ActionRequest("cloud", ActionReadVM, "node1/101", NilParams, FALSE, "", "", "", "", ""),
      ActionRequest("home", ActionStopVM, "node1/101", NilParams, TRUE, "", "", "", "", "") }

InitIsolation ==
    /\ authToken = "test-token"
    /\ auditTo = ""
    /\ clock = 0
    /\ records = [k \in {} |-> idempotencyRecord(hashActionRequest(ZeroRequest), 0, "", [none |-> TRUE])]
    /\ auditLog = << >>
    /\ execCalls = 0
    /\ pc = [h \in Handlers |-> "execute"]
    /\ httpReq = [h \in Handlers |-> NoRequest]
    /\ req \in [Handlers -> IsolationRequests]
    /\ resp = [h \in Handlers |-> NoResponse]
    /\ planDecision = [h \in Handlers |-> ZeroDecision]
    /\ applyDecision = [h \in Handlers |-> ZeroDecision]
    /\ execOutcome = [h \in Handlers |-> NoOutcome]
    /\ call = [h \in Handlers |-> NoCall]
    /\ sent = [h \in Handlers |-> << >>]
    /\ audited = [h \in Handlers |-> << >>]
    /\ trail = [h \in Handlers |-> Trail(FALSE, "", FALSE, 0)]

NextIsolation == \E h \in Handlers : Execute(h) \/ Attempt(h)

SpecIsolation == InitIsolation /\ [][NextIsolation]_vars

\* the Authorization header that carries the token of environment E
CredentialsOf(E) == BuildTokenAuthHeader(apiEnvironment(E).tokenID, apiEnvironment(E).tokenSecret)

\* C32: credentials are isolated per environment: every call to the cluster
\* API made for a request that names environment E goes to the base URL of E
\* with the token id and secret of E, and to no other configured environment's
\* URL or with its token; a request that names an environment that is not
\* configured makes no call.
C32_CredentialsIsolated ==
    \A h \in Handlers :
        LET E == req[h].Environment
        IN /\ E \notin ConfiguredEnvironments => sent[h] = << >>
           /\ \A i \in 1..Len(sent[h]) :
                /\ E \in ConfiguredEnvironments
                /\ sent[h][i].request.url = apiEnvironment(E).baseURL \o call[h].endpoint
                /\ sent[h][i].request.authorization = CredentialsOf(E)
                /\ \A F \in ConfiguredEnvironments \ {E} :
                        /\ sent[h][i].request.authorization # CredentialsOf(F)
                        /\ ~HasPrefix(sent[h][i].request.url, apiEnvironment(F).baseURL)

\* calls for home and for cloud were in flight together, each with its own token
C32_Witness ==
    \E a, b \in Handlers :
        /\ req[a].Environment = "home" /\ req[b].Environment = "cloud"
        /\ sent[a] # << >> /\ sent[b] # << >>
        /\ sent[a][1].request.authorization = "PVEAPIToken=root@pam!home=secret-home"
        /\ sent[b][1].request.authorization = "PVEAPIToken=root@pam!cloud=secret-cloud"

(***************************************************************************)
(* The inventory endpoint.                                                 *)
(***************************************************************************)
\* the state an inventory request asks for
InventoryState(h) ==
    IF TrimSpace(httpReq[h].query.state) = "" THEN "all" ELSE TrimSpace(httpReq[h].query.state)

\* C33: GET /v1/inventory is a server-side plan and then apply of one
\* read_inventory request with target inventory/<state> (all by default): a
\* missing environment or an invalid state gives 400 with no backend call, and
\* a request for a configured environment that meets no failure of the audit
\* file or of the cluster is answered 200 after one plan record, one call of
\* the backend and one apply record, in that order.
C33_InventoryPlansThenApplies ==
    \A h \in Handlers :
        ( /\ pc[h] = "done" /\ httpReq[h].path = InventoryPath /\ RightMethod(h)
          /\ authToken # "" /\ TokenMatches(h) ) =>
            IF \/ TrimSpace(httpReq[h].query.environment) = ""
               \/ InventoryState(h) \notin {"all", "running"}
            THEN /\ resp[h].status = 400
                 /\ trail[h].executed = 0 /\ sent[h] = << >>
            ELSE ( /\ TrimSpace(httpReq[h].query.environment) \in ConfiguredEnvironments
                   /\ auditTo = AuditPath
                   /\ \A i \in 1..Len(sent[h]) : SuccessAnswer(sent[h][i].answer) ) =>
                    /\ resp[h].status = 200
                    /\ req[h].Action = ActionReadInventory
                    /\ req[h].Target = "inventory/" \o InventoryState(h)
                    /\ KindsOf(h) = << "plan", "apply" >>
                    /\ trail[h].executed = 1

(***************************************************************************)
(* Failures of the audit file.                                             *)
(***************************************************************************)
\* C34: a failing audit write is the error of the operation: Plan returns the
\* audit error; a denied Apply returns the audit error and not the denial; an
\* Apply whose call of the backend succeeded and whose apply record could not
\* be written returns the audit error, the one call of the backend made.
C34_AuditErrorSurfaced ==
    \A h \in Handlers :
        (auditTo = UnwritablePath /\ Returned(h)) =>
            /\ (httpReq[h].path = PlanPath /\ EvaluateForPlan(req[h]).err = "") =>
                    /\ resp[h] = httpError(AuditError, 400)
                    /\ planDecision[h] = ZeroDecision
            /\ ( /\ httpReq[h].path = ApplyPath /\ EvaluateForApply(req[h]).err = ""
                 /\ ~applyDecision[h].Allowed ) =>
                    /\ resp[h] = httpError(AuditError, 403)
                    /\ trail[h].executed = 0
            /\ ( /\ httpReq[h].path = ApplyPath /\ trail[h].executed > 0
                 /\ execOutcome[h].err = "" ) =>
                    /\ resp[h] = httpError(AuditError, 403)
                    /\ trail[h].executed = 1 /\ execCalls = 1
            /\ audited[h] = << >> /\ auditLog = << >>

\* the cluster accepted the call of an Apply, and the Apply returned the error
\* of the audit file
C34_Witness ==
    \E h \in Handlers :
        /\ auditTo = UnwritablePath /\ Returned(h)
        /\ httpReq[h].path = ApplyPath /\ ~req[h].DryRun
        /\ Len(sent[h]) = 1 /\ SuccessAnswer(sent[h][1].answer)
        /\ execOutcome[h].err = "" /\ execCalls = 1
        /\ resp[h] = httpError(AuditError, 403)

(***************************************************************************)
(* Approval and execution.                                                 *)
(***************************************************************************)
\* C35: every call of Execute reached through /v1/actions/apply for an action
\* that requires approval carries an approved_by that matches the approver
\* pattern; a blank or whitespace-only approved_by never leads to execution.
C35_ExecutedWithApprover ==
    \A h \in Handlers :
        ( /\ httpReq[h].path = ApplyPath /\ trail[h].executed > 0
          /\ req[h].Action \in ApprovalActions ) =>
            /\ TrimSpace(req[h].ApprovedBy) # ""
            /\ approvedByPattern(req[h].ApprovedBy)

(***************************************************************************)
(* The policy engine on several requests that differ in what the engine    *)
(* is not to look at.                                                      *)
(***************************************************************************)
PairRequests ==
    { ActionRequest("home", action, "vm/101", NilParams, FALSE, approvedBy, "", "", "", "") :
        action \in {ActionDeleteVM, ActionStopVM, ActionStartVM},
        approvedBy \in {"", "ops-user"} }
    \cup
    { ActionRequest("cloud", action, "node1/200", MapParams([node |-> StrVal("node1")]), TRUE,
                    approvedBy, "CHG-1234", "planned maintenance", "2020-01-01T00:00:00Z",
                    "agent-b") :
        action \in {ActionDeleteVM, ActionStopVM, ActionStartVM},
        approvedBy \in {"", "  ", "sec-lead"} }

InitPair ==
    /\ authToken = "test-token"
    /\ auditTo = ""
    /\ clock = 0
    /\ records = [k \in {} |-> idempotencyRecord(hashActionRequest(ZeroRequest), 0, "", [none |-> TRUE])]
    /\ auditLog = << >>
    /\ execCalls = 0
    /\ pc = [h \in Handlers |-> "evaluate"]
    /\ httpReq = [h \in Handlers |-> NoRequest]
    /\ req \in [Handlers -> PairRequests]
    /\ resp = [h \in Handlers |-> NoResponse]
    /\ planDecision = [h \in Handlers |-> ZeroDecision]
    /\ applyDecision = [h \in Handlers |-> ZeroDecision]
    /\ execOutcome = [h \in Handlers |-> NoOutcome]
    /\ call = [h \in Handlers |-> NoCall]
    /\ sent = [h \in Handlers |-> << >>]
    /\ audited = [h \in Handlers |-> << >>]
    /\ trail = [h \in Handlers |-> Trail(FALSE, "", FALSE, 0)]

SpecPair == InitPair /\ [][NextPolicy]_vars

\* C36: the apply-phase decision depends only on the action and on whether
\* approved_by is empty: two requests with non-empty environment and target,
\* the same action and the same emptiness of approved_by get the same allowed,
\* risk_level and requires_approval, whatever their approval_ticket, reason,
\* expires_at, params, dry_run and actor are.
C36_DecisionIgnoresMetadata ==
    \A a, b \in Handlers :
        ( /\ pc[a] = "evaluated" /\ pc[b] = "evaluated"
          /\ req[a].Environment # "" /\ req[a].Target # ""
          /\ req[b].Environment # "" /\ req[b].Target # ""
          /\ req[a].Action = req[b].Action
          /\ (req[a].ApprovedBy = "") = (req[b].ApprovedBy = "") ) =>
            /\ applyDecision[a].Allowed = applyDecision[b].Allowed
            /\ applyDecision[a].RiskLevel = applyDecision[b].RiskLevel
            /\ applyDecision[a].RequiresApproval = applyDecision[b].RequiresApproval

\* a delete with a bare approver and a delete with a ticket, a reason, an expiry
\* in the past, params, dry_run and another actor were both allowed
C36_Witness ==
    \E a, b \in Handlers :
        /\ pc[a] = "evaluated" /\ pc[b] = "evaluated"
        /\ req[a].Action = ActionDeleteVM /\ req[b].Action = ActionDeleteVM
        /\ req[a].ApprovedBy = "ops-user" /\ req[a].ApprovalTicket = ""
        /\ req[b].ApprovedBy = "sec-lead" /\ req[b].ExpiresAt = "2020-01-01T00:00:00Z"
        /\ req[b].DryRun /\ req[b].Actor = "agent-b"
        /\ applyDecision[a].Allowed /\ applyDecision[b].Allowed
        /\ applyDecision[a] = applyDecision[b]

(***************************************************************************)
(* Who writes the idempotency store.                                       *)
(***************************************************************************)
\* the request of handler h passed the method check, authentication, strict
\* decoding and validation, and carries a non-blank Idempotency-Key
Qualified(h) ==
    /\ RightMethod(h)
    /\ authToken # "" /\ TokenMatches(h)
    /\ httpReq[h].path \in {PlanPath, ApplyPath} => decodeStrictJSON(httpReq[h].body) = ""
    /\ ValidateActionRequest(req[h]) = ""
    /\ keyOf(h) # ""

\* a step that changes the store is the storing step of a qualified request
C37_WriterStep ==
    records' # records =>
        \E h \in Handlers : pc[h] = "store" /\ pc'[h] = "done" /\ Qualified(h)

\* a request turned away before the gate, or without a key, used no store
C37_RejectedDone ==
    \A h \in Handlers :
        /\ ( /\ pc[h] = "done"
             /\ \/ resp[h].status \in {405, 401, 503}
                \/ resp[h].status = 400 /\ ~trail[h].admitted ) =>
                (trail[h].gate = "" /\ ~trail[h].stored)
        /\ (pc[h] # "idle" /\ keyOf(h) = "") =>
                (trail[h].gate \in {"", "proceed"} /\ ~trail[h].stored)

\* C37: the idempotency store is written only by requests that passed the
\* method check, authentication, strict decoding and validation and that carry
\* a non-blank Idempotency-Key: a request answered 405, 401, 503, or 400 for a
\* decode or validation failure, leaves the store unchanged, and a request
\* without the header neither reads nor writes it.
C37_StoreFrame == []C37_RejectedDone /\ [][C37_WriterStep]_vars

\* with a record stored under a key, a request bearing that key was refused for
\* its body and the store still holds that one record
C37_Witness ==
    \E a, b \in Handlers :
        /\ a < b /\ pc[a] = "done" /\ pc[b] = "done"
        /\ trail[a].stored /\ keyOf(a) # "" /\ keyOf(b) = keyOf(a)
        /\ httpReq[a].path = httpReq[b].path
        /\ resp[b].status = 400 /\ ~trail[b].admitted
        /\ DOMAIN records = {storeKey(httpReq[a].path, keyOf(a))}
        /\ records[storeKey(httpReq[a].path, keyOf(a))].payloadHash = hashActionRequest(req[a])

(***************************************************************************)
(* Counts of decisions, backend calls and apply records.                   *)
(***************************************************************************)
\* the records of kind apply in the audit log
ApplyRecords == {i \in 1..Len(auditLog) : auditLog[i].kind = "apply"}

\* the handlers whose call of Execute returned without error
ExecutedWithoutError ==
    {h \in Handlers : /\ trail[h].executed > 0
                      /\ pc[h] \in {"executed", "store", "done"}
                      /\ execOutcome[h].err = ""}

\* the handlers whose apply-phase policy decision allowed the request
AllowedToApply == {h \in Handlers : applyDecision[h].Allowed}

\* C38: in every reachable state the number of audit records of kind apply is
\* at most the number of calls of Execute that returned without error, and the
\* number of calls of Execute is at most the number of apply-phase decisions
\* with allowed = true; replayed and conflicting idempotent requests add to
\* none of these counts.
C38_CountsOrdered ==
    /\ Cardinality(ApplyRecords) <= Cardinality(ExecutedWithoutError)
    /\ execCalls <= Cardinality(AllowedToApply)
    /\ \A h \in Handlers :
            trail[h].gate \in {"replay", "conflict"} =>
                /\ h \notin AllowedToApply /\ h \notin ExecutedWithoutError
                /\ trail[h].executed = 0 /\ audited[h] = << >>
                /\ applyDecision[h] = ZeroDecision

\* one apply was allowed, executed and audited, a second one was replayed, and
\* each count is one
C38_Witness ==
    \E a, b \in Handlers :
        /\ pc[a] = "done" /\ pc[b] = "done"
        /\ trail[b].gate = "replay"
        /\ AllowedToApply = {a} /\ ExecutedWithoutError = {a}
        /\ execCalls = 1 /\ Cardinality(ApplyRecords) = 1

(***************************************************************************)
(* Termination of the adapter's request loop.  Every attempt is answered:  *)
(* the HTTP client has a timeout, after which Do returns a transport error. *)
(***************************************************************************)
SpecAdapterFair == SpecAdapter /\ WF_vars(NextAdapter)

\* no more than readRetries attempts are made
C39_AttemptsBounded ==
    \A h \in Handlers : Len(sent[h]) <= readRetries /\ call[h].attempt <= readRetries

\* an attempt is followed by another one only for a GET that met a transport
\* error or a 502, 503 or 504; a GET answered with another status that is not
\* 2xx returns at once the error with its status code, method, endpoint and
\* message
C39_AttemptStep ==
    \A h \in Handlers : \A o \in AnyNetOutcomes :
        Answered(h, o) =>
            /\ pc'[h] = "attempt" =>
                    /\ call[h].method = "GET" /\ TransientAnswer(o)
                    /\ call'[h].attempt = call[h].attempt + 1
            /\ ( /\ call[h].method = "GET" /\ o.kind = "http"
                 /\ ~SuccessAnswer(o) /\ ~TransientAnswer(o) ) =>
                    /\ pc'[h] = "executed"
                    /\ execOutcome'[h] =
                            ExecOutcome(APIErrorString(o.status, "GET", call[h].endpoint,
                                                       extractErrorMessage(o.body)),
                                        ZeroResult)

\* C39: the request loop of the adapter always terminates: every Execute
\* returns a result or an error after at most N = readRetries attempts; a GET
\* is attempted again only after a transport error or a 502, 503 or 504, and a
\* GET that receives another non-2xx status returns a structured error at once.
C39_LoopTerminates ==
    /\ \A h \in Handlers : (pc[h] \in {"execute", "attempt"}) ~> (pc[h] = "executed")
    /\ []C39_AttemptsBounded
    /\ [][C39_AttemptStep]_vars

\* a GET was answered 500 on its first attempt and Execute returned the error
\* with no second attempt
C39_Witness ==
    \E h \in Handlers :
        /\ pc[h] = "executed" /\ call[h].method = "GET"
        /\ Len(sent[h]) = 1 /\ sent[h][1].answer = Http(500, BodyErrors)
        /\ execOutcome[h].err =
                APIErrorString(500, "GET", call[h].endpoint, extractErrorMessage(BodyErrors))

====
